---- MODULE Spec2Model ----
(***************************************************************************)
(* State-machine model of the EFD PIS/COFINS parser                        *)
(* (parser_pis_cofins.py), of the helper functions of sped_parser.py and   *)
(* analise_entrada_saida.py, and of the upload handling of app.py.         *)
(*                                                                         *)
(* Representation.  A Python str read from a file or an argument is a      *)
(* sequence of one-character strings, so that strip, replace, count,       *)
(* slicing and float() work on its characters; "" is <<>>.  A str literal  *)
(* that the code writes into a row or returns (TIPO, a classification) is  *)
(* a TLA+ string.  A line is the list of its fields, as line.split("|")    *)
(* returns it.  Python indexes are 0-based: p[i] of the code is p[i + 1]   *)
(* here.  A float is a record [k, n, d]: k = "num" denotes n / 10^d with d *)
(* minimal, k = "nan" and k = "inf" are the non-finite floats.  Sums are   *)
(* exact: the amounts of the enumerated files add without binary rounding  *)
(* changing whether a sum is zero.                                         *)
(***************************************************************************)
EXTENDS Integers, Sequences, FiniteSets, TLC

VARIABLES
    \* parse_efd_piscofins
    lines,            \* the argument: the split lines of the file
    pc,               \* "loop" while the for loop runs, "done" after the return
    pos,              \* index into lines of the line the loop reads next
    competencia, empresa,
    map_part_nome, map_coditem_ncm,
    records_c100, records_out, records_ap_pis, records_cred_pis,
    current_c100, current_a100, current_c500, current_d100, current_f100,
    c500_pis_bc, c500_pis_aliq, c500_pis_val,
    c500_cof_bc, c500_cof_aliq, c500_cof_val,
    \* pure functions, applied once to an enumerated argument
    in_str,           \* the str argument
    in_strs,          \* the list of str argument
    in_file,          \* the uploaded artifact argument
    in_frame,         \* the DataFrame argument: the list of its rows
    called,           \* the function that was applied ("" before the call)
    result,           \* what it returned, or the exception it raised
    \* app.py: the upload page
    uploaded_files,   \* the value of the st.file_uploader widget
    files_data,       \* st.session_state.files_data
    status_log        \* the errors the last script run showed in status_placeholder

parserVars ==
    <<lines, pc, pos, competencia, empresa, map_part_nome, map_coditem_ncm,
      records_c100, records_out, records_ap_pis, records_cred_pis,
      current_c100, current_a100, current_c500, current_d100, current_f100,
      c500_pis_bc, c500_pis_aliq, c500_pis_val,
      c500_cof_bc, c500_cof_aliq, c500_cof_val>>

fnVars == <<in_str, in_strs, in_file, in_frame, called, result>>

appVars == <<uploaded_files, files_data, status_log>>

vars == <<parserVars, fnVars, appVars>>

-----------------------------------------------------------------------------
(* Bounds *)

\* longest enumerated argument of the numeric normalizers
MaxStrLen == 4
\* longest enumerated argument of the classifiers
MaxCfopLen == 2
\* most members of an enumerated zip archive
MaxMembers == 2
\* most files of an enumerated upload
MaxBatch == 2
\* most lines of an enumerated file, per specification
MaxLines == 3
MaxLinesUtility == 4
MaxLinesMeta == 3
MaxLinesSchema == 4
\* most lines of a file with two headers of a family
MaxLinesFamilies == 3
\* most lines of a file with registry records that share a code
MaxLinesMaps == 4
\* most rows of an enumerated DataFrame
MaxRows == 2
\* most lines of an enumerated file of sped_parser
MaxLinesSped == 3

-----------------------------------------------------------------------------
(* Characters and str methods *)

\* F applied to the value of e, which is computed once
Bind(e, F(_)) == CHOOSE r \in {F(x) : x \in {e}} : TRUE

Digit == {"0", "1", "2", "3", "4", "5", "6", "7", "8", "9"}

DigitVal(c) ==
    CASE c = "0" -> 0 [] c = "1" -> 1 [] c = "2" -> 2 [] c = "3" -> 3
      [] c = "4" -> 4 [] c = "5" -> 5 [] c = "6" -> 6 [] c = "7" -> 7
      [] c = "8" -> 8 [] c = "9" -> 9

\* the elements of a list
Range(l) == {l[i] : i \in 1..Len(l)}

\* str.lower() on one character, for the letters the model's names use
LowerChar(c) ==
    CASE c = "T" -> "t" [] c = "X" -> "x" [] c = "Z" -> "z" [] c = "I" -> "i"
      [] c = "P" -> "p" [] c = "A" -> "a" [] c = "B" -> "b"
      [] OTHER -> c

Lower(s) == [i \in 1..Len(s) |-> LowerChar(s[i])]

EndsWith(s, suffix) ==
    /\ Len(s) >= Len(suffix)
    /\ SubSeq(s, Len(s) - Len(suffix) + 1, Len(s)) = suffix

RECURSIVE LStrip(_)
LStrip(s) == IF s # <<>> /\ Head(s) = " " THEN LStrip(Tail(s)) ELSE s

RECURSIVE RStrip(_)
RStrip(s) ==
    IF s # <<>> /\ s[Len(s)] = " " THEN RStrip(SubSeq(s, 1, Len(s) - 1)) ELSE s

\* str.strip()
Strip(s) == RStrip(LStrip(s))

\* str.replace(a, b) for a one-character a; b is a str (<<>> deletes)
RECURSIVE Replace(_, _, _)
Replace(s, a, b) ==
    IF s = <<>> THEN <<>>
    ELSE (IF Head(s) = a THEN b ELSE <<Head(s)>>) \o Replace(Tail(s), a, b)

\* str.count(c)
Count(s, c) == Cardinality({i \in 1..Len(s) : s[i] = c})

-----------------------------------------------------------------------------
(* Floats *)

RECURSIVE Pow10(_)
Pow10(k) == IF k = 0 THEN 1 ELSE 10 * Pow10(k - 1)

RECURSIVE Num(_, _)
Num(n, d) ==
    IF n = 0 THEN [k |-> "num", n |-> 0, d |-> 0]
    ELSE IF d > 0 /\ n % 10 = 0 THEN Num(n \div 10, d - 1)
    ELSE [k |-> "num", n |-> n, d |-> d]

Zero == Num(0, 0)
NaN == [k |-> "nan", n |-> 0, d |-> 0]
Inf(sign) == [k |-> "inf", n |-> sign, d |-> 0]
\* float() raising ValueError
ValueError == [k |-> "ValueError", n |-> 0, d |-> 0]

RECURSIVE DigitsVal(_)
DigitsVal(s) ==
    IF s = <<>> THEN 0
    ELSE 10 * DigitsVal(SubSeq(s, 1, Len(s) - 1)) + DigitVal(s[Len(s)])

\* Python's float(str): surrounding whitespace, an optional sign, then nan,
\* inf, infinity or a decimal with at most one point and at least one digit.
\* (Exponents, underscores and upper-case spellings use characters outside
\* the enumerated alphabet.)
FloatOf(s) ==
    LET t == Strip(s)
        signed == t # <<>> /\ Head(t) \in {"-", "+"}
        sign == IF signed /\ Head(t) = "-" THEN -1 ELSE 1
        body == IF signed THEN Tail(t) ELSE t
        digits == Replace(body, ".", <<>>)
        point == IF Count(body, ".") = 0 THEN Len(body) + 1
                 ELSE CHOOSE i \in 1..Len(body) : body[i] = "."
    IN  IF body = <<"n", "a", "n">> THEN NaN
        ELSE IF body = <<"i", "n", "f">>
                \/ body = <<"i", "n", "f", "i", "n", "i", "t", "y">> THEN Inf(sign)
        ELSE IF /\ \A i \in 1..Len(body) : body[i] \in Digit \cup {"."}
                /\ Count(body, ".") <= 1
                /\ digits # <<>>
             THEN Num(sign * DigitsVal(digits),
                      IF Count(body, ".") = 0 THEN 0 ELSE Len(body) - point)
        ELSE ValueError

-----------------------------------------------------------------------------
(* Numeric normalizers *)

\* parser_pis_cofins._to_float without its try/except: periods dropped,
\* commas turned into the decimal point
_to_float_body(v) ==
    LET s == Strip(v)
    IN  IF s = <<>> THEN Zero
        ELSE FloatOf(Replace(Replace(s, ".", <<>>), ",", <<".">>))

\* parser_pis_cofins._to_float
_to_float(v) ==
    IF _to_float_body(v).k = "ValueError" THEN Zero ELSE _to_float_body(v)

\* app.to_float without its try/except
app_to_float_body(value) ==
    LET s == Strip(value)
    IN  IF s = <<>> THEN Zero
        ELSE IF Count(s, ",") = 1 /\ Count(s, ".") >= 1
             THEN FloatOf(Replace(Replace(s, ".", <<>>), ",", <<".">>))
        ELSE FloatOf(Replace(s, ",", <<".">>))

\* app.to_float
app_to_float(value) ==
    IF app_to_float_body(value).k = "ValueError" THEN Zero
    ELSE app_to_float_body(value)

\* sped_parser.to_float without its try/except
sped_to_float_body(valor) ==
    IF valor = <<>> \/ Strip(valor) = <<>> THEN Zero
    ELSE FloatOf(Replace(Replace(valor, ".", <<>>), ",", <<".">>))

\* sped_parser.to_float
sped_to_float(valor) ==
    IF sped_to_float_body(valor).k = "ValueError" THEN Zero
    ELSE sped_to_float_body(valor)

-----------------------------------------------------------------------------
(* Operation classifiers.  The return values are spelled in ASCII:         *)
(* "SAIDA" is 'SAÍDA', "NAO CLASSIFICADO" is 'NÃO CLASSIFICADO'.           *)

\* a classifier that takes the directions the other way round
classificar_cfop_Swapped(cfop) ==
    IF cfop = <<>> THEN "OUTROS"
    ELSE LET cfop_str == Strip(cfop)
         IN  IF Len(cfop_str) = 0 THEN "OUTROS"
             ELSE IF cfop_str[1] \in {"1", "2", "3"} THEN "SAIDA"
             ELSE IF cfop_str[1] \in {"5", "6", "7"} THEN "ENTRADA"
             ELSE "OUTROS"

\* sped_parser.classificar_cfop
classificar_cfop(cfop) ==
    IF cfop = <<>> THEN "OUTROS"
    ELSE LET cfop_str == Strip(cfop)
         IN  IF Len(cfop_str) = 0 THEN "OUTROS"
             ELSE IF cfop_str[1] \in {"1", "2", "3"} THEN "ENTRADA"
             ELSE IF cfop_str[1] \in {"5", "6", "7"} THEN "SAIDA"
             ELSE "OUTROS"

\* analise_entrada_saida.classificar_tipo_operacao
classificar_tipo_operacao(cfop) ==
    IF cfop = <<>> THEN "NAO CLASSIFICADO"
    ELSE LET cfop_str == Strip(cfop)
         IN  IF Len(cfop_str) = 0 THEN "NAO CLASSIFICADO"
             ELSE IF cfop_str[1] \in {"1", "2", "3"} THEN "ENTRADA"
             ELSE IF cfop_str[1] \in {"5", "6", "7"} THEN "SAIDA"
             ELSE "OUTROS"

-----------------------------------------------------------------------------
(* parser_pis_cofins.py: loading an uploaded artifact.  An artifact is its  *)
(* name, its bytes (data) and, when the bytes are a zip archive, the list  *)
(* of the archive's members (name and bytes).  A byte is written as the    *)
(* ASCII character it encodes; "E9" is the byte 0xE9, which is not valid   *)
(* UTF-8 on its own and is e-acute in latin-1.                             *)

\* the first bytes of a zip archive
sPK == <<"P", "K">>

\* an uploaded artifact whose bytes are not an archive
TxtFile(name, data) ==
    [name |-> name, data |-> data, is_zip |-> FALSE, members |-> <<>>]

\* an uploaded artifact whose bytes are a zip archive
ZipFile(name, members) ==
    [name |-> name, data |-> sPK, is_zip |-> TRUE, members |-> members]

\* no artifact
NoFile == TxtFile(<<>>, <<>>)

\* bytes.decode("utf-8"), falling back to latin-1
_decode_bytes(b) ==
    IF \A i \in 1..Len(b) : b[i] # "E9" THEN b
    ELSE [i \in 1..Len(b) |-> IF b[i] = "E9" THEN "e-acute" ELSE b[i]]

\* str.split(sep) of the characters lo..hi of s, by halves: the last piece
\* of the first half and the first piece of the second are one piece
RECURSIVE SplitRange(_, _, _, _)
SplitRange(s, sep, lo, hi) ==
    IF \A k \in lo..hi : s[k] # sep THEN <<SubSeq(s, lo, hi)>>
    ELSE IF lo = hi THEN << <<>>, <<>> >>
    ELSE Bind(SplitRange(s, sep, lo, (lo + hi) \div 2),
              LAMBDA l :
                  Bind(SplitRange(s, sep, (lo + hi) \div 2 + 1, hi),
                       LAMBDA r : SubSeq(l, 1, Len(l) - 1)
                                      \o <<l[Len(l)] \o r[1]>> \o Tail(r)))

\* str.split(sep) for a one-character sep: the pieces of s between the
\* positions of sep, the ends of s included
SplitAt(s, sep) == SplitRange(s, sep, 1, Len(s))

Split(s, sep) == Bind(s, LAMBDA x : SplitAt(x, sep))

\* str.splitlines(), for the line boundary "\n"
SplitLines(s) ==
    Bind(Split(s, "\n"),
         LAMBDA parts : IF parts[Len(parts)] = <<>>
                        THEN SubSeq(parts, 1, Len(parts) - 1)
                        ELSE parts)

sTxt == <<".", "t", "x", "t">>
sZip == <<".", "z", "i", "p">>

\* what a call gives back: the exception it raised ("" for none) and the value
Return(v) == [raised |-> "", value |-> v]
Raise(exc) == [raised |-> exc, value |-> <<>>]

\* the loop of _extract_txt_from_zip over zf.namelist()
RECURSIVE ExtendTxt(_)
ExtendTxt(members) ==
    IF members = <<>> THEN <<>>
    ELSE (IF EndsWith(Lower(Head(members).name), sTxt)
          THEN SplitLines(_decode_bytes(Head(members).data))
          ELSE <<>>) \o ExtendTxt(Tail(members))

\* parser_pis_cofins._extract_txt_from_zip; zipfile.ZipFile raises BadZipFile
\* on bytes that are not an archive
_extract_txt_from_zip(uploaded_file) ==
    IF ~uploaded_file.is_zip THEN Raise("BadZipFile")
    ELSE Return(ExtendTxt(uploaded_file.members))

\* parser_pis_cofins.load_efd_from_upload
load_efd_from_upload(uploaded_file) ==
    LET name == Lower(uploaded_file.name)
    IN  IF EndsWith(name, sZip) THEN _extract_txt_from_zip(uploaded_file)
        ELSE IF EndsWith(name, sTxt)
             THEN Return(SplitLines(_decode_bytes(uploaded_file.data)))
        ELSE Raise("ValueError")

-----------------------------------------------------------------------------
(* parser_pis_cofins.py: helpers *)

\* Python's None for the open-parent variables.  A split line that reaches
\* them has at least three fields, so <<>> is never a header.
None == <<>>

\* record tags and literals the code compares fields with
T0000 == <<"0", "0", "0", "0">>
T0150 == <<"0", "1", "5", "0">>
T0200 == <<"0", "2", "0", "0">>
TC100 == <<"C", "1", "0", "0">>
TC170 == <<"C", "1", "7", "0">>
TA100 == <<"A", "1", "0", "0">>
TA170 == <<"A", "1", "7", "0">>
TC500 == <<"C", "5", "0", "0">>
TC501 == <<"C", "5", "0", "1">>
TC505 == <<"C", "5", "0", "5">>
TD100 == <<"D", "1", "0", "0">>
TD101 == <<"D", "1", "0", "1">>
TD105 == <<"D", "1", "0", "5">>
TF100 == <<"F", "1", "0", "0">>
TF120 == <<"F", "1", "2", "0">>
TM200 == <<"M", "2", "0", "0">>
TM105 == <<"M", "1", "0", "5">>

\* parser_pis_cofins._to_str on a str
_to_str(v) == Strip(v)

\* _get(p, idx, default=""): p[idx] of the code, "" past the end
_get(p, idx) == IF idx + 1 <= Len(p) THEN p[idx + 1] ELSE <<>>

\* float == 0.0 (False for nan and inf)
IsZero(x) == x.k = "num" /\ x.n = 0

\* float + float
Add(x, y) ==
    IF x.k = "nan" \/ y.k = "nan" THEN NaN
    ELSE IF x.k = "inf" /\ y.k = "inf" THEN (IF x.n = y.n THEN x ELSE NaN)
    ELSE IF x.k = "inf" THEN x
    ELSE IF y.k = "inf" THEN y
    ELSE LET d == IF x.d > y.d THEN x.d ELSE y.d
         IN  Num(x.n * Pow10(d - x.d) + y.n * Pow10(d - y.d), d)

RECURSIVE NatChars(_)
NatChars(n) ==
    LET c == CHOOSE ch \in Digit : DigitVal(ch) = n % 10
    IN  IF n < 10 THEN <<c>> ELSE NatChars(n \div 10) \o <<c>>

\* |x| in hundredths, as f"{x:.2f}" rounds it (a tie goes to the even
\* hundredth; the binary value of a float decides a tie in Python, and no
\* amount of the model's inputs ends in a tie)
Cents(x) ==
    LET a == IF x.n < 0 THEN -x.n ELSE x.n
    IN  IF x.d <= 2 THEN a * Pow10(2 - x.d)
        ELSE LET unit == Pow10(x.d - 2)
                 q == a \div unit
                 r == a % unit
             IN  IF 2 * r > unit \/ (2 * r = unit /\ q % 2 = 1) THEN q + 1 ELSE q

\* parser_pis_cofins._fmt_brl: f"{x:.2f}".replace(".", ",")
_fmt_brl(x) ==
    IF x.k = "nan" THEN <<"n", "a", "n">>
    ELSE IF x.k = "inf"
         THEN (IF x.n < 0 THEN <<"-">> ELSE <<>>) \o <<"i", "n", "f">>
    ELSE LET c == Cents(x)
             frac == c % 100
         IN  (IF x.n < 0 THEN <<"-">> ELSE <<>>)
             \o NatChars(c \div 100) \o <<",">>
             \o NatChars(frac \div 10) \o NatChars(frac % 10)

\* str(0.0): the float 0.0 that the D101 and D105 rows store
Float0 == <<"0", ".", "0">>

-----------------------------------------------------------------------------
(* parser_pis_cofins.py: metadata and reference maps *)

\* the lines _extract_0000_metadata stops at
Is0000(p) == Len(p) >= 9 /\ p[2] = T0000

\* a reading of DT_INI as DDMMAAAA
_extract_0000_metadata_DayFirst(lns) ==
    IF \A i \in 1..Len(lns) : ~Is0000(lns[i])
    THEN [competencia |-> <<>>, empresa |-> <<>>]
    ELSE LET first == CHOOSE i \in 1..Len(lns) :
                          Is0000(lns[i]) /\ \A j \in 1..(i - 1) : ~Is0000(lns[j])
             dt_ini == _to_str(lns[first][7])
         IN  [competencia |->
                 IF Len(dt_ini) = 8
                 THEN SubSeq(dt_ini, 3, 4) \o <<"/">> \o SubSeq(dt_ini, 5, 8)
                 ELSE <<>>,
              empresa |-> _to_str(lns[first][8])]

\* parser_pis_cofins._extract_0000_metadata: (competencia, empresa)
\* a scan without the break: the last opening record wins
_extract_0000_metadata_LastWins(lns) ==
    IF \A i \in 1..Len(lns) : ~Is0000(lns[i])
    THEN [competencia |-> <<>>, empresa |-> <<>>]
    ELSE LET last == CHOOSE i \in 1..Len(lns) :
                         Is0000(lns[i]) /\ \A j \in (i + 1)..Len(lns) : ~Is0000(lns[j])
             p == lns[last]
             dt_ini == _to_str(p[7])
         IN  [competencia |->
                 IF Len(dt_ini) = 8
                 THEN SubSeq(dt_ini, 5, 6) \o <<"/">> \o SubSeq(dt_ini, 1, 4)
                 ELSE <<>>,
              empresa |-> _to_str(p[8])]

_extract_0000_metadata(lns) ==
    IF \A i \in 1..Len(lns) : ~Is0000(lns[i])
    THEN [competencia |-> <<>>, empresa |-> <<>>]
    ELSE LET first == CHOOSE i \in 1..Len(lns) :
                          Is0000(lns[i]) /\ \A j \in 1..(i - 1) : ~Is0000(lns[j])
             p == lns[first]
             dt_ini == _to_str(p[7])
         IN  [competencia |->
                 IF Len(dt_ini) = 8
                 THEN SubSeq(dt_ini, 5, 6) \o <<"/">> \o SubSeq(dt_ini, 1, 4)
                 ELSE <<>>,
              empresa |-> _to_str(p[8])]

\* dict[key] = value
Put(m, key, value) == (key :> value) @@ m

\* a lookup that falls back on the key
Lookup_KeyDefault(m, key) == IF key \in DOMAIN m THEN m[key] ELSE key

\* dict.get(key, "")
Lookup(m, key) == IF key \in DOMAIN m THEN m[key] ELSE <<>>

\* the empty dict
EmptyMap == [x \in {} |-> <<>>]

\* _build_maps, loop body for map_part_nome (0150)
PartStep(m, p) ==
    IF Len(p) < 3 \/ p[2] # T0150 THEN m
    ELSE LET cod_part == _to_str(p[3])
             nome == IF Len(p) > 3 THEN _to_str(p[4]) ELSE <<>>
         IN  IF cod_part # <<>> THEN Put(m, cod_part, nome) ELSE m

\* a loop body that keeps the first NCM of an item code
ItemStep_FirstWins(m, p) ==
    IF Len(p) < 3 \/ p[2] # T0200 THEN m
    ELSE LET cod_item == _to_str(p[3])
             ncm == IF Len(p) > 7 THEN _to_str(p[8]) ELSE <<>>
         IN  IF cod_item # <<>> /\ cod_item \notin DOMAIN m
             THEN Put(m, cod_item, ncm) ELSE m

\* _build_maps, loop body for map_coditem_ncm (0200)
ItemStep(m, p) ==
    IF Len(p) < 3 \/ p[2] # T0200 THEN m
    ELSE LET cod_item == _to_str(p[3])
             ncm == IF Len(p) > 7 THEN _to_str(p[8]) ELSE <<>>
         IN  IF cod_item # <<>> THEN Put(m, cod_item, ncm) ELSE m

RECURSIVE BuildPart(_, _)
BuildPart(lns, m) ==
    IF lns = <<>> THEN m ELSE BuildPart(Tail(lns), PartStep(m, Head(lns)))

RECURSIVE BuildItem(_, _)
BuildItem(lns, m) ==
    IF lns = <<>> THEN m ELSE BuildItem(Tail(lns), ItemStep(m, Head(lns)))

\* parser_pis_cofins._build_maps: (map_part_nome, map_coditem_ncm)
_build_maps(lns) ==
    [map_part_nome |-> BuildPart(lns, EmptyMap),
     map_coditem_ncm |-> BuildItem(lns, EmptyMap)]

-----------------------------------------------------------------------------
(* sped_parser.py: the NF-e item table *)

\* str.startswith
StartsWith(s, prefix) ==
    Len(s) >= Len(prefix) /\ SubSeq(s, 1, Len(prefix)) = prefix

\* sped_parser.extrair_campo(linha, indice)
extrair_campo(linha, indice) ==
    Bind(Split(linha, "|"),
         LAMBDA partes : IF indice < Len(partes) THEN Strip(partes[indice + 1])
                         ELSE <<>>)

s0200 == <<"|", "0", "2", "0", "0", "|">>
sC100 == <<"|", "C", "1", "0", "0", "|">>
sC170 == <<"|", "C", "1", "7", "0", "|">>

\* a lookup that shows the item code for an item without a 0200 record
ProdutoInfo_CodeAsDescription(produtos, cod_item) ==
    IF cod_item \in DOMAIN produtos THEN produtos[cod_item]
    ELSE [descricao |-> cod_item, ncm |-> <<>>]

\* processar_sped, first pass: the loop body on one stripped line
ProdutoStep(produtos, linha) ==
    IF StartsWith(linha, s0200) /\ extrair_campo(linha, 2) # <<>>
    THEN Put(produtos, extrair_campo(linha, 2),
             [descricao |-> extrair_campo(linha, 3), ncm |-> extrair_campo(linha, 8)])
    ELSE produtos

RECURSIVE BuildProdutos(_, _)
BuildProdutos(linhas, produtos) ==
    IF linhas = <<>> THEN produtos
    ELSE Bind(ProdutoStep(produtos, Head(linhas)),
              LAMBDA m : BuildProdutos(Tail(linhas), m))

\* the dict {} of c100_atual before the first C100
EmptyDict == [vazio |-> TRUE]

\* produtos.get(cod_item, {'descricao': '', 'ncm': ''})
ProdutoInfo(produtos, cod_item) ==
    IF cod_item \in DOMAIN produtos THEN produtos[cod_item]
    ELSE [descricao |-> <<>>, ncm |-> <<>>]

\* processar_sped: the row of a C170 line, with the numeric columns, the
\* TIPO_OPERACAO and the VL_TOTAL that are computed after the loop
RegistroC170(c100_atual, produtos, linha) ==
    LET cod_item == extrair_campo(linha, 3)
        vl_pis == sped_to_float(extrair_campo(linha, 30))
        vl_cofins == sped_to_float(extrair_campo(linha, 36))
    IN  [NUM_DOC |-> c100_atual.NUM_DOC,
         CHV_NFE |-> c100_atual.CHV_NFE,
         DT_DOC |-> c100_atual.DT_DOC,
         COD_PART |-> c100_atual.COD_PART,
         COD_ITEM |-> cod_item,
         DESCR_ITEM |-> ProdutoInfo(produtos, cod_item).descricao,
         NCM |-> ProdutoInfo(produtos, cod_item).ncm,
         CFOP |-> extrair_campo(linha, 11),
         CST_PIS |-> extrair_campo(linha, 25),
         VL_BC_PIS |-> sped_to_float(extrair_campo(linha, 26)),
         ALIQ_PIS |-> sped_to_float(extrair_campo(linha, 27)),
         VL_PIS |-> vl_pis,
         CST_COFINS |-> extrair_campo(linha, 31),
         VL_BC_COFINS |-> sped_to_float(extrair_campo(linha, 32)),
         ALIQ_COFINS |-> sped_to_float(extrair_campo(linha, 33)),
         VL_COFINS |-> vl_cofins,
         TIPO_OPERACAO |-> classificar_cfop(extrair_campo(linha, 11)),
         VL_TOTAL |-> Add(vl_pis, vl_cofins)]

\* a second pass that keeps only the items of inbound operations
RegistroStep_EntradaOnly(st, produtos, linha) ==
    IF linha = <<>> THEN st
    ELSE IF StartsWith(linha, sC100)
    THEN [st EXCEPT !.c100_atual = [NUM_DOC |-> extrair_campo(linha, 8),
                                    CHV_NFE |-> extrair_campo(linha, 9),
                                    DT_DOC |-> extrair_campo(linha, 10),
                                    COD_PART |-> extrair_campo(linha, 4)]]
    ELSE IF /\ StartsWith(linha, sC170) /\ st.c100_atual # EmptyDict
            /\ classificar_cfop(extrair_campo(linha, 11)) # "SAIDA"
    THEN [st EXCEPT !.registros =
              Append(@, RegistroC170(st.c100_atual, produtos, linha))]
    ELSE st

\* processar_sped, second pass: the loop body on one stripped line
RegistroStep(st, produtos, linha) ==
    IF linha = <<>> THEN st
    ELSE IF StartsWith(linha, sC100)
    THEN [st EXCEPT !.c100_atual = [NUM_DOC |-> extrair_campo(linha, 8),
                                    CHV_NFE |-> extrair_campo(linha, 9),
                                    DT_DOC |-> extrair_campo(linha, 10),
                                    COD_PART |-> extrair_campo(linha, 4)]]
    ELSE IF StartsWith(linha, sC170) /\ st.c100_atual # EmptyDict
    THEN [st EXCEPT !.registros =
              Append(@, RegistroC170(st.c100_atual, produtos, linha))]
    ELSE st

RECURSIVE BuildRegistros(_, _, _)
BuildRegistros(linhas, produtos, st) ==
    IF linhas = <<>> THEN st
    ELSE Bind(RegistroStep(st, produtos, Head(linhas)),
              LAMBDA st2 : BuildRegistros(Tail(linhas), produtos, st2))

\* sped_parser.processar_sped: the rows of the DataFrame it returns
processar_sped(conteudo) ==
    Bind(Bind(Split(conteudo, "\n"),
              LAMBDA parts : [i \in 1..Len(parts) |-> Strip(parts[i])]),
         LAMBDA linhas :
             Bind(BuildProdutos(linhas, EmptyMap),
                  LAMBDA produtos :
                      BuildRegistros(linhas, produtos,
                                     [c100_atual |-> EmptyDict,
                                      registros |-> <<>>]).registros))

\* sped_parser.processar_multiplos_speds: pd.concat of the frames that are
\* not empty
RECURSIVE processar_multiplos_speds(_)
processar_multiplos_speds(arquivos_conteudo) ==
    IF arquivos_conteudo = <<>> THEN <<>>
    ELSE Bind(processar_sped(Head(arquivos_conteudo)),
              LAMBDA df : IF df # <<>>
                          THEN df \o processar_multiplos_speds(Tail(arquivos_conteudo))
                          ELSE processar_multiplos_speds(Tail(arquivos_conteudo)))

-----------------------------------------------------------------------------
(* parser_pis_cofins.parse_efd_piscofins: the loop body, one operator per  *)
(* record tag.  s is the record of the function's local variables, p the   *)
(* split line.                                                             *)

\* a filter that lets rows of zeros through
AllZero4_Never(vl_pis, vl_cof, vl_bc_pis, vl_bc_cof) == FALSE

\* the non-zero-credit test of C170, A170 and F120
AllZero4(vl_pis, vl_cof, vl_bc_pis, vl_bc_cof) ==
    /\ IsZero(_to_float(vl_pis))
    /\ IsZero(_to_float(vl_cof))
    /\ IsZero(_to_float(vl_bc_pis))
    /\ IsZero(_to_float(vl_bc_cof))

\* a reset that leaves the two rates as they are
ResetC500_KeepRates(s) ==
    [s EXCEPT !.current_c500 = None,
              !.c500_pis_bc = Zero, !.c500_pis_val = Zero,
              !.c500_cof_bc = Zero, !.c500_cof_val = Zero]

\* finalize_c500: the reset of the open header and of the accumulators
ResetC500(s) ==
    [s EXCEPT !.current_c500 = None,
              !.c500_pis_bc = Zero, !.c500_pis_aliq = Zero, !.c500_pis_val = Zero,
              !.c500_cof_bc = Zero, !.c500_cof_aliq = Zero, !.c500_cof_val = Zero]

\* finalize_c500: the consolidated row of the open C500
RowC500(s) ==
    LET cod_part == _get(s.current_c500, 2)
    IN  [COMPETENCIA |-> s.competencia,
         EMPRESA |-> s.empresa,
         TIPO |-> "C500/C501/C505",
         DOC |-> _get(s.current_c500, 7),
         DT_DOC |-> _get(s.current_c500, 8),
         COD_PART |-> cod_part,
         NOME_PART |-> Lookup(s.map_part_nome, cod_part),
         VL_DOC |-> _get(s.current_c500, 10),
         CFOP |-> <<>>,
         CST_PIS |-> <<>>,
         VL_BC_PIS |-> _fmt_brl(s.c500_pis_bc),
         ALIQ_PIS |-> _fmt_brl(s.c500_pis_aliq),
         VL_PIS |-> _fmt_brl(s.c500_pis_val),
         CST_COFINS |-> <<>>,
         VL_BC_COFINS |-> _fmt_brl(s.c500_cof_bc),
         ALIQ_COFINS |-> _fmt_brl(s.c500_cof_aliq),
         VL_COFINS |-> _fmt_brl(s.c500_cof_val)]

\* a finalize that writes the row of every open C500
finalize_c500_AlwaysRow(s) ==
    IF s.current_c500 = None THEN s
    ELSE ResetC500([s EXCEPT !.records_out = Append(@, RowC500(s))])

\* finalize_c500
finalize_c500(s) ==
    IF s.current_c500 = None THEN s
    ELSE IF /\ IsZero(s.c500_pis_bc) /\ IsZero(s.c500_pis_val)
            /\ IsZero(s.c500_cof_bc) /\ IsZero(s.c500_cof_val)
         THEN ResetC500(s)
    ELSE ResetC500([s EXCEPT !.records_out = Append(@, RowC500(s))])

\* reg == "C100"
OnC100(s, p) == [s EXCEPT !.current_c100 = p]

\* a direction test that takes every code but "1" (saida) for an entry
IsEntrada_NotSaida(ind_oper) == ind_oper # <<"1">>

\* the direction test of C170: only IND_OPER "0" (entrada) gives credit
IsEntrada(ind_oper) == ind_oper = <<"0">>

\* reg == "C170" and current_c100
OnC170(s, p) ==
    LET ind_oper == _get(s.current_c100, 2)
        cod_part == _get(s.current_c100, 4)
        cod_item == _get(p, 3)
        vl_bc_pis == _get(p, 13)
        vl_pis == _get(p, 15)
        vl_bc_cof == _get(p, 19)
        vl_cof == _get(p, 21)
    IN  IF ~IsEntrada(ind_oper) THEN s
        ELSE IF AllZero4(vl_pis, vl_cof, vl_bc_pis, vl_bc_cof) THEN s
        ELSE [s EXCEPT !.records_c100 = Append(@,
                [COMPETENCIA |-> s.competencia,
                 EMPRESA |-> s.empresa,
                 IND_OPER |-> ind_oper,
                 COD_PART |-> cod_part,
                 NOME_PART |-> Lookup(s.map_part_nome, cod_part),
                 MODELO |-> _get(s.current_c100, 5),
                 SIT_DOC |-> _get(s.current_c100, 9),
                 NUM_DOC |-> _get(s.current_c100, 8),
                 DT_DOC |-> _get(s.current_c100, 10),
                 DT_ENTR |-> _get(s.current_c100, 11),
                 VL_DOC |-> _get(s.current_c100, 12),
                 NUM_ITEM |-> _get(p, 2),
                 COD_ITEM |-> cod_item,
                 DESCR_ITEM |-> _get(p, 4),
                 NCM |-> Lookup(s.map_coditem_ncm, cod_item),
                 CFOP |-> _get(p, 11),
                 CST_PIS |-> _get(p, 12),
                 VL_BC_PIS |-> vl_bc_pis,
                 ALIQ_PIS |-> _get(p, 14),
                 VL_PIS |-> vl_pis,
                 CST_COFINS |-> _get(p, 18),
                 VL_BC_COFINS |-> vl_bc_cof,
                 ALIQ_COFINS |-> _get(p, 20),
                 VL_COFINS |-> vl_cof])]

\* an A100 that is ignored while a service header is open
OnA100_KeepOpen(s, p) ==
    IF s.current_a100 = None THEN [s EXCEPT !.current_a100 = p] ELSE s

\* reg == "A100"
OnA100(s, p) == [s EXCEPT !.current_a100 = p]

\* reg == "A170" and current_a100
OnA170(s, p) ==
    LET cod_part == _get(s.current_a100, 4)
        vl_bc_pis == _get(p, 10)
        vl_pis == _get(p, 12)
        vl_bc_cof == _get(p, 14)
        vl_cof == _get(p, 16)
    IN  IF AllZero4(vl_pis, vl_cof, vl_bc_pis, vl_bc_cof) THEN s
        ELSE [s EXCEPT !.records_out = Append(@,
                [COMPETENCIA |-> s.competencia,
                 EMPRESA |-> s.empresa,
                 TIPO |-> "A100/A170",
                 DOC |-> _get(s.current_a100, 8),
                 DT_DOC |-> _get(s.current_a100, 9),
                 COD_PART |-> cod_part,
                 NOME_PART |-> Lookup(s.map_part_nome, cod_part),
                 VL_DOC |-> _get(s.current_a100, 11),
                 CFOP |-> <<>>,
                 CST_PIS |-> _get(p, 9),
                 VL_BC_PIS |-> vl_bc_pis,
                 ALIQ_PIS |-> _get(p, 11),
                 VL_PIS |-> vl_pis,
                 CST_COFINS |-> _get(p, 13),
                 VL_BC_COFINS |-> vl_bc_cof,
                 ALIQ_COFINS |-> _get(p, 15),
                 VL_COFINS |-> vl_cof])]

\* a C500 that does not close the previous one
OnC500_NoFinalize(s, p) == [s EXCEPT !.current_c500 = p]

\* reg == "C500"
OnC500(s, p) == [finalize_c500(s) EXCEPT !.current_c500 = p]

\* a C501 that accumulates without an open C500
OnC501_NoGuard(s, p) ==
    [s EXCEPT !.c500_pis_bc = Add(@, _to_float(_get(p, 5))),
              !.c500_pis_aliq = _to_float(_get(p, 6)),
              !.c500_pis_val = Add(@, _to_float(_get(p, 7)))]

\* reg == "C501"
OnC501(s, p) ==
    IF s.current_c500 # None
    THEN [s EXCEPT !.c500_pis_bc = Add(@, _to_float(_get(p, 5))),
                   !.c500_pis_aliq = _to_float(_get(p, 6)),
                   !.c500_pis_val = Add(@, _to_float(_get(p, 7)))]
    ELSE s

\* reg == "C505"
OnC505(s, p) ==
    IF s.current_c500 # None
    THEN [s EXCEPT !.c500_cof_bc = Add(@, _to_float(_get(p, 5))),
                   !.c500_cof_aliq = _to_float(_get(p, 6)),
                   !.c500_cof_val = Add(@, _to_float(_get(p, 7)))]
    ELSE s

\* a D100 that also closes the open service document
OnD100_CloseService(s, p) == [s EXCEPT !.current_d100 = p, !.current_a100 = None]

\* reg == "D100"
OnD100(s, p) == [s EXCEPT !.current_d100 = p]

\* reg == "D101"
OnD101(s, p) ==
    IF s.current_d100 = None THEN s
    ELSE LET d100 == s.current_d100
             cod_part == _get(d100, 4)
             vl_bc_pis == _get(p, 4)
             vl_pis == _get(p, 6)
         IN  IF IsZero(_to_float(vl_pis)) /\ IsZero(_to_float(vl_bc_pis)) THEN s
             ELSE [s EXCEPT !.records_out = Append(@,
                     [COMPETENCIA |-> s.competencia,
                      EMPRESA |-> s.empresa,
                      TIPO |-> "D100/D101",
                      DOC |-> _get(d100, 8),
                      DT_DOC |-> _get(d100, 10),
                      COD_PART |-> cod_part,
                      NOME_PART |-> Lookup(s.map_part_nome, cod_part),
                      VL_DOC |-> _get(d100, 12),
                      CFOP |-> <<>>,
                      CST_PIS |-> _get(p, 3),
                      VL_BC_PIS |-> vl_bc_pis,
                      ALIQ_PIS |-> _get(p, 5),
                      VL_PIS |-> vl_pis,
                      CST_COFINS |-> <<>>,
                      VL_BC_COFINS |-> Float0,
                      ALIQ_COFINS |-> Float0,
                      VL_COFINS |-> Float0])]

\* a D105 whose row takes the place of the rows written before it
OnD105_Overwrite(s, p) ==
    IF s.current_d100 = None THEN s
    ELSE LET d100 == s.current_d100
             cod_part == _get(d100, 4)
             vl_bc_cof == _get(p, 4)
             vl_cof == _get(p, 6)
         IN  IF IsZero(_to_float(vl_cof)) /\ IsZero(_to_float(vl_bc_cof)) THEN s
             ELSE [s EXCEPT !.records_out = <<
                     [COMPETENCIA |-> s.competencia,
                      EMPRESA |-> s.empresa,
                      TIPO |-> "D100/D105",
                      DOC |-> _get(d100, 8),
                      DT_DOC |-> _get(d100, 10),
                      COD_PART |-> cod_part,
                      NOME_PART |-> Lookup(s.map_part_nome, cod_part),
                      VL_DOC |-> _get(d100, 12),
                      CFOP |-> <<>>,
                      CST_PIS |-> <<>>,
                      VL_BC_PIS |-> Float0,
                      ALIQ_PIS |-> Float0,
                      VL_PIS |-> Float0,
                      CST_COFINS |-> _get(p, 3),
                      VL_BC_COFINS |-> vl_bc_cof,
                      ALIQ_COFINS |-> _get(p, 5),
                      VL_COFINS |-> vl_cof]>>]

\* reg == "D105"
OnD105(s, p) ==
    IF s.current_d100 = None THEN s
    ELSE LET d100 == s.current_d100
             cod_part == _get(d100, 4)
             vl_bc_cof == _get(p, 4)
             vl_cof == _get(p, 6)
         IN  IF IsZero(_to_float(vl_cof)) /\ IsZero(_to_float(vl_bc_cof)) THEN s
             ELSE [s EXCEPT !.records_out = Append(@,
                     [COMPETENCIA |-> s.competencia,
                      EMPRESA |-> s.empresa,
                      TIPO |-> "D100/D105",
                      DOC |-> _get(d100, 8),
                      DT_DOC |-> _get(d100, 10),
                      COD_PART |-> cod_part,
                      NOME_PART |-> Lookup(s.map_part_nome, cod_part),
                      VL_DOC |-> _get(d100, 12),
                      CFOP |-> <<>>,
                      CST_PIS |-> <<>>,
                      VL_BC_PIS |-> Float0,
                      ALIQ_PIS |-> Float0,
                      VL_PIS |-> Float0,
                      CST_COFINS |-> _get(p, 3),
                      VL_BC_COFINS |-> vl_bc_cof,
                      ALIQ_COFINS |-> _get(p, 5),
                      VL_COFINS |-> vl_cof])]

\* reg == "F100"
OnF100(s, p) == [s EXCEPT !.current_f100 = p]

\* reg == "F120" (its row has no "CFOP" key)
OnF120(s, p) ==
    IF s.current_f100 = None THEN s
    ELSE LET f100 == s.current_f100
             cod_part == _get(f100, 3)
             vl_bc_pis == _get(p, 9)
             vl_pis == _get(p, 11)
             vl_bc_cof == _get(p, 13)
             vl_cof == _get(p, 15)
         IN  IF AllZero4(vl_pis, vl_cof, vl_bc_pis, vl_bc_cof) THEN s
             ELSE [s EXCEPT !.records_out = Append(@,
                     [COMPETENCIA |-> s.competencia,
                      EMPRESA |-> s.empresa,
                      TIPO |-> "F100/F120",
                      DOC |-> _get(f100, 5),
                      DT_DOC |-> _get(f100, 6),
                      COD_PART |-> cod_part,
                      NOME_PART |-> Lookup(s.map_part_nome, cod_part),
                      VL_DOC |-> _get(f100, 7),
                      CST_PIS |-> _get(p, 8),
                      VL_BC_PIS |-> vl_bc_pis,
                      ALIQ_PIS |-> _get(p, 10),
                      VL_PIS |-> vl_pis,
                      CST_COFINS |-> _get(p, 12),
                      VL_BC_COFINS |-> vl_bc_cof,
                      ALIQ_COFINS |-> _get(p, 14),
                      VL_COFINS |-> vl_cof])]

\* an M200 that is ignored when the file already has its row
OnM200_OnlyFirst(s, p) ==
    IF s.records_ap_pis # <<>> THEN s
    ELSE [s EXCEPT !.records_ap_pis = Append(@,
            [COMPETENCIA |-> s.competencia,
             EMPRESA |-> s.empresa,
             VL_TOT_CONT_NC_PER |-> _to_float(_get(p, 2)),
             VL_CONT_NC_REC |-> _to_float(_get(p, 3)),
             VL_TOT_CRED_DESC |-> _to_float(_get(p, 4)),
             VL_TOT_CONT_REAL |-> _to_float(_get(p, 5)),
             VL_CONT_NC_REST |-> _to_float(_get(p, 6)),
             VL_CONT_NC_RET |-> _to_float(_get(p, 7)),
             VL_CONT_NC_SUSP |-> _to_float(_get(p, 8)),
             VL_CONT_NC_ADIC |-> _to_float(_get(p, 9))])]

\* reg == "M200"
OnM200(s, p) ==
    [s EXCEPT !.records_ap_pis = Append(@,
        [COMPETENCIA |-> s.competencia,
         EMPRESA |-> s.empresa,
         VL_TOT_CONT_NC_PER |-> _to_float(_get(p, 2)),
         VL_CONT_NC_REC |-> _to_float(_get(p, 3)),
         VL_TOT_CRED_DESC |-> _to_float(_get(p, 4)),
         VL_TOT_CONT_REAL |-> _to_float(_get(p, 5)),
         VL_CONT_NC_REST |-> _to_float(_get(p, 6)),
         VL_CONT_NC_RET |-> _to_float(_get(p, 7)),
         VL_CONT_NC_SUSP |-> _to_float(_get(p, 8)),
         VL_CONT_NC_ADIC |-> _to_float(_get(p, 9))])]

\* reg == "M105"
OnM105(s, p) ==
    [s EXCEPT !.records_cred_pis = Append(@,
        [COMPETENCIA |-> s.competencia,
         EMPRESA |-> s.empresa,
         NAT_BC_CRED |-> _get(p, 2),
         CST |-> _get(p, 3),
         VL_BC |-> _get(p, 4),
         ALIQ |-> _get(p, 5),
         VL_CRED |-> _get(p, 6)])]

\* a noise test that lets a line of two fields through
IsNoise_FewerThanTwo(p) == Len(p) < 2

\* if len(p) < 3: continue
IsNoise(p) == Len(p) < 3

\* one iteration of "for line in lines" on the split line p
LoopStep(s, p) ==
    IF IsNoise(p) THEN s
    ELSE LET reg == p[2]
         IN  IF reg = TC100 THEN OnC100(s, p)
             ELSE IF reg = TC170 /\ s.current_c100 # None THEN OnC170(s, p)
             ELSE IF reg = TA100 THEN OnA100(s, p)
             ELSE IF reg = TA170 /\ s.current_a100 # None THEN OnA170(s, p)
             ELSE IF reg = TC500 THEN OnC500(s, p)
             ELSE IF reg = TC501 THEN OnC501(s, p)
             ELSE IF reg = TC505 THEN OnC505(s, p)
             ELSE IF reg = TD100 THEN OnD100(s, p)
             ELSE IF reg = TD101 THEN OnD101(s, p)
             ELSE IF reg = TD105 THEN OnD105(s, p)
             ELSE IF reg = TF100 THEN OnF100(s, p)
             ELSE IF reg = TF120 THEN OnF120(s, p)
             ELSE IF reg = TM200 THEN OnM200(s, p)
             ELSE IF reg = TM105 THEN OnM105(s, p)
             ELSE s

\* the local variables of parse_efd_piscofins when the loop starts
ParseStart(lns) ==
    [competencia |-> _extract_0000_metadata(lns).competencia,
     empresa |-> _extract_0000_metadata(lns).empresa,
     map_part_nome |-> _build_maps(lns).map_part_nome,
     map_coditem_ncm |-> _build_maps(lns).map_coditem_ncm,
     records_c100 |-> <<>>, records_out |-> <<>>,
     records_ap_pis |-> <<>>, records_cred_pis |-> <<>>,
     current_c100 |-> None, current_a100 |-> None, current_c500 |-> None,
     current_d100 |-> None, current_f100 |-> None,
     c500_pis_bc |-> Zero, c500_pis_aliq |-> Zero, c500_pis_val |-> Zero,
     c500_cof_bc |-> Zero, c500_cof_aliq |-> Zero, c500_cof_val |-> Zero]

RECURSIVE RunLoop(_, _)
RunLoop(s, lns) ==
    IF lns = <<>> THEN s
    ELSE Bind(LoopStep(s, Head(lns)), LAMBDA t : RunLoop(t, Tail(lns)))

\* parse_efd_piscofins as a function: what it returns for lns
parse_efd_piscofins(lns) ==
    Bind(Bind(ParseStart(lns), LAMBDA s0 : finalize_c500(RunLoop(s0, lns))),
         LAMBDA s : [df_c100 |-> s.records_c100, df_outros |-> s.records_out,
                     df_ap |-> s.records_ap_pis, df_cred |-> s.records_cred_pis,
                     competencia |-> s.competencia, empresa |-> s.empresa])

-----------------------------------------------------------------------------
(* parse_efd_piscofins as a state machine *)

\* the local variables as one record
Locals ==
    [competencia |-> competencia, empresa |-> empresa,
     map_part_nome |-> map_part_nome, map_coditem_ncm |-> map_coditem_ncm,
     records_c100 |-> records_c100, records_out |-> records_out,
     records_ap_pis |-> records_ap_pis, records_cred_pis |-> records_cred_pis,
     current_c100 |-> current_c100, current_a100 |-> current_a100,
     current_c500 |-> current_c500, current_d100 |-> current_d100,
     current_f100 |-> current_f100,
     c500_pis_bc |-> c500_pis_bc, c500_pis_aliq |-> c500_pis_aliq,
     c500_pis_val |-> c500_pis_val, c500_cof_bc |-> c500_cof_bc,
     c500_cof_aliq |-> c500_cof_aliq, c500_cof_val |-> c500_cof_val]

\* the local variables take the values of the record s
Assign(s) ==
    /\ competencia' = s.competencia
    /\ empresa' = s.empresa
    /\ map_part_nome' = s.map_part_nome
    /\ map_coditem_ncm' = s.map_coditem_ncm
    /\ records_c100' = s.records_c100
    /\ records_out' = s.records_out
    /\ records_ap_pis' = s.records_ap_pis
    /\ records_cred_pis' = s.records_cred_pis
    /\ current_c100' = s.current_c100
    /\ current_a100' = s.current_a100
    /\ current_c500' = s.current_c500
    /\ current_d100' = s.current_d100
    /\ current_f100' = s.current_f100
    /\ c500_pis_bc' = s.c500_pis_bc
    /\ c500_pis_aliq' = s.c500_pis_aliq
    /\ c500_pis_val' = s.c500_pis_val
    /\ c500_cof_bc' = s.c500_cof_bc
    /\ c500_cof_aliq' = s.c500_cof_aliq
    /\ c500_cof_val' = s.c500_cof_val

\* the state when the for loop starts on the file lns
ParserInit(lns) ==
    /\ lines = lns
    /\ pc = "loop"
    /\ pos = 1
    /\ competencia = ParseStart(lns).competencia
    /\ empresa = ParseStart(lns).empresa
    /\ map_part_nome = ParseStart(lns).map_part_nome
    /\ map_coditem_ncm = ParseStart(lns).map_coditem_ncm
    /\ records_c100 = <<>> /\ records_out = <<>>
    /\ records_ap_pis = <<>> /\ records_cred_pis = <<>>
    /\ current_c100 = None /\ current_a100 = None /\ current_c500 = None
    /\ current_d100 = None /\ current_f100 = None
    /\ c500_pis_bc = Zero /\ c500_pis_aliq = Zero /\ c500_pis_val = Zero
    /\ c500_cof_bc = Zero /\ c500_cof_aliq = Zero /\ c500_cof_val = Zero

\* the parser is not running
ParserIdle ==
    /\ lines = <<>> /\ pc = "idle" /\ pos = 0
    /\ competencia = <<>> /\ empresa = <<>>
    /\ map_part_nome = EmptyMap /\ map_coditem_ncm = EmptyMap
    /\ records_c100 = <<>> /\ records_out = <<>>
    /\ records_ap_pis = <<>> /\ records_cred_pis = <<>>
    /\ current_c100 = None /\ current_a100 = None /\ current_c500 = None
    /\ current_d100 = None /\ current_f100 = None
    /\ c500_pis_bc = Zero /\ c500_pis_aliq = Zero /\ c500_pis_val = Zero
    /\ c500_cof_bc = Zero /\ c500_cof_aliq = Zero /\ c500_cof_val = Zero

\* no pure function is being applied
FnIdle ==
    /\ in_str = <<>> /\ in_strs = <<>> /\ in_file = NoFile /\ in_frame = <<>>
    /\ called = "" /\ result = <<>>

\* one iteration of the for loop
LoopBody ==
    /\ pc = "loop"
    /\ pos <= Len(lines)
    /\ Assign(LoopStep(Locals, lines[pos]))
    /\ pos' = pos + 1
    /\ UNCHANGED <<lines, pc, fnVars, appVars>>

\* the loop is over: the pending C500 is finalized and the function returns
EndOfInput ==
    /\ pc = "loop"
    /\ pos > Len(lines)
    /\ Assign(finalize_c500(Locals))
    /\ pc' = "done"
    /\ UNCHANGED <<lines, pos, fnVars, appVars>>

NextParser == LoopBody \/ EndOfInput

-----------------------------------------------------------------------------
(* Input files: split lines with the fields the code reads at the          *)
(* positions it reads them (0-based, as in the code), "" elsewhere.        *)

Line(n, f) == [i \in 1..n |-> IF (i - 1) \in DOMAIN f THEN f[i - 1] ELSE <<>>]

sP1 == <<"P", "1">>
sP2 == <<"P", "2">>
sP1pad == <<" ", "P", "1">>
sNameA == <<"A">>
sNameB == <<"B">>
sDoc1 == <<"N", "1">>
sDoc2 == <<"N", "2">>
sItem == <<"I", "1">>
sNcm == <<"1", "9">>
sItem2 == <<"I", "2">>
sNcm2 == <<"2", "7">>
sIn == <<"0">>
sOut == <<"1">>
a150 == <<"1", ",", "5", "0">>
a150neg == <<"-", "1", ",", "5", "0">>
a000 == <<"0", ",", "0", "0">>
a0004 == <<"0", ",", "0", "0", "4">>

L0000(dt_ini, nome) == Line(10, (1 :> T0000) @@ (6 :> dt_ini) @@ (7 :> nome))
L0150(cod_part, nome) == Line(5, (1 :> T0150) @@ (2 :> cod_part) @@ (3 :> nome))
L0200(cod_item, ncm) == Line(9, (1 :> T0200) @@ (2 :> cod_item) @@ (7 :> ncm))
LC100(ind_oper, cod_part, num_doc) ==
    Line(14, (1 :> TC100) @@ (2 :> ind_oper) @@ (4 :> cod_part) @@ (8 :> num_doc))
LC170(cod_item, vl_bc_pis, vl_pis, vl_bc_cof, vl_cof) ==
    Line(23, (1 :> TC170) @@ (3 :> cod_item) @@ (13 :> vl_bc_pis)
             @@ (15 :> vl_pis) @@ (19 :> vl_bc_cof) @@ (21 :> vl_cof))
LA100(cod_part, num_doc) ==
    Line(13, (1 :> TA100) @@ (4 :> cod_part) @@ (8 :> num_doc))
LA170(vl_bc_pis, vl_pis, vl_bc_cof, vl_cof) ==
    Line(18, (1 :> TA170) @@ (10 :> vl_bc_pis) @@ (12 :> vl_pis)
             @@ (14 :> vl_bc_cof) @@ (16 :> vl_cof))
LC500(cod_part, num_doc) ==
    Line(12, (1 :> TC500) @@ (2 :> cod_part) @@ (7 :> num_doc))
LC501(vl_bc, aliq, vl) ==
    Line(9, (1 :> TC501) @@ (5 :> vl_bc) @@ (6 :> aliq) @@ (7 :> vl))
LC505(vl_bc, aliq, vl) ==
    Line(9, (1 :> TC505) @@ (5 :> vl_bc) @@ (6 :> aliq) @@ (7 :> vl))
LD100(cod_part, num_doc) ==
    Line(14, (1 :> TD100) @@ (4 :> cod_part) @@ (8 :> num_doc))
LD101(vl_bc, vl) == Line(8, (1 :> TD101) @@ (4 :> vl_bc) @@ (6 :> vl))
LD105(vl_bc, vl) == Line(8, (1 :> TD105) @@ (4 :> vl_bc) @@ (6 :> vl))
LF100(cod_part, num_doc) ==
    Line(9, (1 :> TF100) @@ (3 :> cod_part) @@ (5 :> num_doc))
LF120(vl_bc_pis, vl_pis, vl_bc_cof, vl_cof) ==
    Line(17, (1 :> TF120) @@ (9 :> vl_bc_pis) @@ (11 :> vl_pis)
             @@ (13 :> vl_bc_cof) @@ (15 :> vl_cof))
LM200(vl) == Line(11, (1 :> TM200) @@ (2 :> vl))
LM105(vl_bc, vl_cred) == Line(8, (1 :> TM105) @@ (4 :> vl_bc) @@ (6 :> vl_cred))
\* a line of two fields: "|C100"
LShort(reg) == <<<<>>, reg>>

\* the parser starts on a file of at most n lines drawn from the tuple pool
ParserInitFrom(pool, n) ==
    \E k \in 0..n : \E idx \in [1..k -> 1..Len(pool)] :
        ParserInit([i \in 1..k |-> pool[idx[i]]])

sDtIni == <<"2", "0", "2", "5", "0", "9", "0", "1">>

\* lines of every record family the parser handles
PoolAll ==
    << L0000(sDtIni, sNameA), L0150(sP1, sNameA), L0150(sP1pad, sNameB),
       L0200(sItem, sNcm),
       LC100(sIn, sP1, sDoc1), LC100(sOut, sP1, sDoc2), LC100(<<>>, sP2, sDoc2),
       LC170(sItem, a150, a150, <<>>, <<>>), LC170(sItem, a000, <<>>, a000, <<>>),
       LA100(sP1, sDoc1), LA170(a150, a150, a150, a150),
       LC500(sP1, sDoc1), LC501(a150, a150, a150), LC501(a0004, a150, <<>>),
       LC505(a150, a150, a150),
       LD100(sP2, sDoc1), LD101(a150, a150), LD105(a150, a150),
       LF100(sP1, sDoc1), LF120(a150, a150, a150, a150),
       LM200(a150), LM105(a000, a000), LShort(TC100) >>

\* utility bills, one child being a reversal, among headers of every family
PoolUtility ==
    << LC500(sP1, sDoc1), LC500(sP2, sDoc2),
       LC501(a150, a150, a150), LC505(a150, a150, a150),
       LC501(a150neg, a150, a150neg),
       LC100(sIn, sP1, sDoc1), LA100(sP1, sDoc1), LD100(sP2, sDoc1),
       LF100(sP1, sDoc1) >>

\* a header and the children of each family of Other-Document rows, an
\* invoice with an item, and a credit declaration
PoolSchema ==
    << LA100(sP1, sDoc1), LA170(a150, a150, a150, a150),
       LC500(sP1, sDoc1), LC501(a150, a150, a150),
       LD100(sP2, sDoc1), LD101(a150, a150), LD105(a150, a150),
       LF100(sP1, sDoc1), LF120(a150, a150, a150, a150),
       LC100(sIn, sP1, sDoc1), LC170(sItem, a150, a150, a150, a150),
       LM105(a150, a150) >>

sDtPad == <<" ", "2", "0", "2", "4", "1", "2", "0", "1">>
sDtYear == <<"2", "0", "2", "5">>
sNamePad == <<" ", "B", " ">>

\* opening records (a padded one, one with a 4-character date, one cut to 8
\* fields) among records that give rows in the four collections
\* two headers of each family, with different participants and numbers,
\* and the children of each family
PoolFamilies ==
    << LC100(sIn, sP1, sDoc1), LC100(sIn, sP2, sDoc2),
       LC170(sItem, a150, a150, a150, a150),
       LA100(sP1, sDoc1), LA100(sP2, sDoc2), LA170(a150, a150, a150, a150),
       LC500(sP1, sDoc1), LC500(sP2, sDoc2), LC501(a150, a150, a150),
       LD100(sP1, sDoc1), LD100(sP2, sDoc2), LD101(a150, a150), LD105(a150, a150),
       LF100(sP1, sDoc1), LF100(sP2, sDoc2), LF120(a150, a150, a150, a150) >>

\* two 0150 and two 0200 records with one code each, and documents that
\* reference the codes
PoolMaps ==
    << L0150(sP1, sNameA), L0150(sP1, sNameB),
       L0200(sItem, sNcm), L0200(sItem, sNcm2),
       LC100(sIn, sP1, sDoc1), LC170(sItem, a150, a150, a150, a150),
       LD100(sP1, sDoc2), LD101(a150, a150) >>

PoolMeta ==
    << L0000(sDtIni, sNameA), L0000(sDtPad, sNamePad), L0000(sDtYear, sNameB),
       Line(8, (1 :> T0000) @@ (6 :> sDtIni) @@ (7 :> sNameA)),
       LM200(a150), LM200(a000), LM105(a150, a150),
       LA100(sP1, sDoc1), LA170(a150, a150, a150, a150),
       LC100(sIn, sP1, sDoc1), LC170(sItem, a150, a150, a150, a150) >>

-----------------------------------------------------------------------------
(* The pure functions, each applied once to an enumerated argument *)

\* characters of the enumerated amounts
NormAlphabet == {"0", "1", ",", ".", "-", " ", "n", "a"}

\* amounts the enumeration would not reach
NormSamples ==
    << <<"1", ".", "2", "3", "4", ",", "5", "6">>, <<"a", "b", "c">>,
       <<"1", "2", "3", "4", ".", "5", "6">>, <<"1", ".", "2", ".", "3">>,
       <<" ", " ", "1", ",", "5", "0", " ">> >>

\* characters of the enumerated CFOP codes
CfopAlphabet == Digit \cup {" ", "x"}

CfopSamples ==
    << <<"1", "1", "0", "2">>, <<"5", "1", "0", "2">>, <<"9", "9", "9", "9">>,
       <<" ", " ", " ">>, <<" ", "2", "1", "0", "2">> >>

\* the str argument is a sample or any string over alphabet of at most n
StrInit(alphabet, samples, n) ==
    \/ \E k \in 0..n : \E f \in [1..k -> alphabet] : in_str = f
    \/ \E j \in 1..Len(samples) : in_str = samples[j]

FileNames ==
    << <<"a", ".", "t", "x", "t">>, <<"A", ".", "T", "X", "T">>,
       <<"a", ".", "z", "i", "p">>, <<"A", ".", "Z", "i", "p">>,
       <<"a", ".", "p", "d", "f">>, <<"a", "t", "x", "t">>,
       <<"a", ".", "z", "i", "p", ".", "b", "a", "k">> >>

MemberNames ==
    << <<"x", ".", "t", "x", "t">>, <<"X", ".", "T", "X", "T">>,
       <<"x", ".", "p", "d", "f">> >>

\* file contents: empty, two lines, a line that is not UTF-8
FileData ==
    << <<>>, <<"|", "A", "|", "\n", "|", "B", "|", "\n">>, <<"|", "E9", "|">> >>

\* the artifact argument: any name on plain bytes or on an archive of at most
\* MaxMembers members
FileInit ==
    \E n \in 1..Len(FileNames) :
        \/ \E d \in 1..Len(FileData) : in_file = TxtFile(FileNames[n], FileData[d])
        \/ \E k \in 0..MaxMembers :
               \E mn \in [1..k -> 1..Len(MemberNames)] :
                   \E md \in [1..k -> 1..Len(FileData)] :
                       in_file = ZipFile(FileNames[n],
                                         [i \in 1..k |-> [name |-> MemberNames[mn[i]],
                                                          data |-> FileData[md[i]]]])

\* parser_pis_cofins._to_float(in_str)
Call_to_float ==
    /\ called = ""
    /\ called' = "parser_pis_cofins._to_float"
    /\ result' = _to_float(in_str)
    /\ UNCHANGED <<in_str, in_strs, in_file, in_frame, parserVars, appVars>>

\* app.to_float(in_str)
CallAppToFloat ==
    /\ called = ""
    /\ called' = "app.to_float"
    /\ result' = app_to_float(in_str)
    /\ UNCHANGED <<in_str, in_strs, in_file, in_frame, parserVars, appVars>>

\* sped_parser.to_float(in_str)
CallSpedToFloat ==
    /\ called = ""
    /\ called' = "sped_parser.to_float"
    /\ result' = sped_to_float(in_str)
    /\ UNCHANGED <<in_str, in_strs, in_file, in_frame, parserVars, appVars>>

\* sped_parser.classificar_cfop(in_str)
CallClassificarCfop ==
    /\ called = ""
    /\ called' = "classificar_cfop"
    /\ result' = classificar_cfop(in_str)
    /\ UNCHANGED <<in_str, in_strs, in_file, in_frame, parserVars, appVars>>

\* analise_entrada_saida.classificar_tipo_operacao(in_str)
CallClassificarTipoOperacao ==
    /\ called = ""
    /\ called' = "classificar_tipo_operacao"
    /\ result' = classificar_tipo_operacao(in_str)
    /\ UNCHANGED <<in_str, in_strs, in_file, in_frame, parserVars, appVars>>

\* parser_pis_cofins.load_efd_from_upload(in_file)
CallLoad ==
    /\ called = ""
    /\ called' = "load_efd_from_upload"
    /\ result' = load_efd_from_upload(in_file)
    /\ UNCHANGED <<in_str, in_strs, in_file, in_frame, parserVars, appVars>>

-----------------------------------------------------------------------------
(* app.py: the upload page.  st.cache_data memoizes parse_file on the name  *)
(* and bytes of the upload, so a cached call gives what an uncached one    *)
(* would; the cache is not part of the state.                              *)

\* p = line.strip().split("|")
SplitFields(line) == Split(Strip(line), "|")

\* app.parse_file
parse_file(uploaded_file) ==
    Bind(load_efd_from_upload(uploaded_file),
         LAMBDA loaded :
             IF loaded.raised # "" THEN loaded
             ELSE Bind([i \in 1..Len(loaded.value) |-> SplitFields(loaded.value[i])],
                       LAMBDA lns : Return(parse_efd_piscofins(lns))))

\* the dict that process_uploaded_files appends for a parsed file
FileEntry(file_name, parsed) ==
    [name |-> file_name,
     df_c100 |-> parsed.df_c100, df_outros |-> parsed.df_outros,
     df_ap |-> parsed.df_ap, df_cred |-> parsed.df_cred,
     competencia |-> parsed.competencia, empresa |-> parsed.empresa]

\* a loop over the uploads that ends at the first file whose parsing raises
RECURSIVE process_uploaded_files_AbortOnError(_, _)
process_uploaded_files_AbortOnError(fd, uploads) ==
    IF uploads = <<>> THEN fd
    ELSE LET uploaded_file == Head(uploads)
             file_name == uploaded_file.name
         IN  IF \E i \in 1..Len(fd) : fd[i].name = file_name
             THEN process_uploaded_files_AbortOnError(fd, Tail(uploads))
             ELSE Bind(parse_file(uploaded_file),
                       LAMBDA parsed :
                           IF parsed.raised # "" THEN fd
                           ELSE process_uploaded_files_AbortOnError(
                                    Append(fd, FileEntry(file_name, parsed.value)),
                                    Tail(uploads)))

\* a loop over the uploads that parses a file whose name has an entry again
\* and puts the new entry in the place of the old one
RECURSIVE process_uploaded_files_Reparse(_, _)
process_uploaded_files_Reparse(fd, uploads) ==
    IF uploads = <<>> THEN fd
    ELSE LET uploaded_file == Head(uploads)
             file_name == uploaded_file.name
             body == Bind(parse_file(uploaded_file),
                          LAMBDA parsed :
                              IF parsed.raised # "" THEN fd
                              ELSE IF \E i \in 1..Len(fd) : fd[i].name = file_name
                              THEN [i \in 1..Len(fd) |->
                                       IF fd[i].name = file_name
                                       THEN FileEntry(file_name, parsed.value)
                                       ELSE fd[i]]
                              ELSE Append(fd, FileEntry(file_name, parsed.value)))
         IN  Bind(body, LAMBDA fd2 : process_uploaded_files_Reparse(fd2, Tail(uploads)))

\* app.process_uploaded_files: files_data after the loop over the uploads
RECURSIVE process_uploaded_files(_, _)
process_uploaded_files(fd, uploads) ==
    IF uploads = <<>> THEN fd
    ELSE LET uploaded_file == Head(uploads)
             file_name == uploaded_file.name
             \* files_data after the loop body on uploaded_file
             body == IF \E i \in 1..Len(fd) : fd[i].name = file_name THEN fd
                     ELSE Bind(parse_file(uploaded_file),
                               LAMBDA parsed :
                                   IF parsed.raised # "" THEN fd
                                   ELSE Append(fd, FileEntry(file_name, parsed.value)))
         IN  Bind(body, LAMBDA fd2 : process_uploaded_files(fd2, Tail(uploads)))

\* a call of status_placeholder: info, markdown, success, error or empty
Status(kind, file_name) == [kind |-> kind, file_name |-> file_name]

\* app.process_uploaded_files: the calls of status_placeholder, in order
RECURSIVE status_placeholder(_, _)
status_placeholder(fd, uploads) ==
    IF uploads = <<>> THEN <<Status("empty", <<>>)>>
    ELSE LET uploaded_file == Head(uploads)
             file_name == uploaded_file.name
         IN  IF \E i \in 1..Len(fd) : fd[i].name = file_name
             THEN <<Status("info", file_name)>>
                      \o status_placeholder(fd, Tail(uploads))
             ELSE Bind(parse_file(uploaded_file),
                       LAMBDA parsed :
                           IF parsed.raised # ""
                           THEN <<Status("markdown", file_name),
                                  Status("error", file_name)>>
                                    \o status_placeholder(fd, Tail(uploads))
                           ELSE <<Status("markdown", file_name),
                                  Status("success", file_name)>>
                                    \o status_placeholder(
                                           Append(fd, FileEntry(file_name, parsed.value)),
                                           Tail(uploads)))

\* the calls of status_placeholder.error among the calls log
ErrorsOf(log) == SelectSeq(log, LAMBDA c : c.kind = "error")

\* the option "all" of the two filter select boxes
Todas == <<"*">>

\* a combination that keeps only the frame of the last entry
ConcatFrame_LastOnly(fd, frame, competencia_selecionada, empresa_selecionada) ==
    IF fd = <<>> THEN <<>> ELSE fd[Len(fd)][frame]

\* pd.concat of one frame of every entry that passes the two filters
RECURSIVE ConcatFrame(_, _, _, _)
ConcatFrame(fd, frame, competencia_selecionada, empresa_selecionada) ==
    IF fd = <<>> THEN <<>>
    ELSE LET data == Head(fd)
             comp_match == competencia_selecionada = Todas
                               \/ data.competencia = competencia_selecionada
             emp_match == empresa_selecionada = Todas
                              \/ data.empresa = empresa_selecionada
         IN  (IF comp_match /\ emp_match THEN data[frame] ELSE <<>>)
                 \o ConcatFrame(Tail(fd), frame, competencia_selecionada,
                                empresa_selecionada)

\* the four combined frames the page computes from files_data
CombineFiles(fd, competencia_selecionada, empresa_selecionada) ==
    [df_c100 |-> ConcatFrame(fd, "df_c100", competencia_selecionada, empresa_selecionada),
     df_outros |-> ConcatFrame(fd, "df_outros", competencia_selecionada, empresa_selecionada),
     df_ap |-> ConcatFrame(fd, "df_ap", competencia_selecionada, empresa_selecionada),
     df_cred |-> ConcatFrame(fd, "df_cred", competencia_selecionada, empresa_selecionada)]

\* list.pop(idx) for the 1-based idx
Pop(l, idx) == SubSeq(l, 1, idx - 1) \o SubSeq(l, idx + 1, Len(l))

\* str.join
RECURSIVE Join(_, _)
Join(parts, sep) ==
    IF parts = <<>> THEN <<>>
    ELSE IF Len(parts) = 1 THEN parts[1]
    ELSE parts[1] \o <<sep>> \o Join(Tail(parts), sep)

\* the text of a file with the split lines lns
RECURSIVE TextOf(_)
TextOf(lns) ==
    IF lns = <<>> THEN <<>>
    ELSE Join(Head(lns), "|") \o <<"\n">> \o TextOf(Tail(lns))

sNameTxtA == <<"a", ".", "t", "x", "t">>
sNameTxtB == <<"b", ".", "t", "x", "t">>
sNameZip == <<"c", ".", "z", "i", "p">>
sNameBadZip == <<"d", ".", "z", "i", "p">>

\* the uploads: two files named a.txt, a file b.txt, an archive of two texts
\* and a .zip that is not an archive
FilePool ==
    << TxtFile(sNameTxtA, TextOf(<<LM105(a150, a150), LM105(a000, a000)>>)),
       TxtFile(sNameTxtA, TextOf(<<LM200(a150)>>)),
       TxtFile(sNameTxtB, TextOf(<<L0000(sDtIni, sNameB), LD100(sP2, sDoc1),
                                   LD101(a150, a150)>>)),
       ZipFile(sNameZip,
               << [name |-> <<"x", ".", "t", "x", "t">>,
                   data |-> TextOf(<<LM200(a000)>>)],
                  [name |-> <<"y", ".", "T", "X", "T">>,
                   data |-> TextOf(<<LM105(a150, a000)>>)] >>),
       TxtFile(sNameBadZip, sPK) >>

sCfopIn == <<"1", "1", "0", "2">>
sCfopOut == <<"5", "1", "0", "2">>

\* lines as sped_parser reads them
LS0200(cod_item, descr_item, ncm) ==
    Line(10, (1 :> T0200) @@ (2 :> cod_item) @@ (3 :> descr_item) @@ (8 :> ncm))
LSC100(cod_part, num_doc) ==
    Line(12, (1 :> TC100) @@ (4 :> cod_part) @@ (8 :> num_doc))
LSC170(cod_item, cfop, vl_pis, vl_cofins) ==
    Line(38, (1 :> TC170) @@ (3 :> cod_item) @@ (11 :> cfop)
             @@ (30 :> vl_pis) @@ (36 :> vl_cofins))

\* file contents for sped_parser: an invoice with a registered item, an
\* invoice of two items, the empty file and an item without its invoice
ContentPool ==
    << TextOf(<<LS0200(sItem, sNameA, sNcm), LSC100(sP1, sDoc1),
                LSC170(sItem, sCfopIn, a150, a150)>>),
       TextOf(<<LSC100(sP2, sDoc2), LSC170(sItem, sCfopOut, a150, a000),
                LSC170(sItem, <<>>, a000, a150)>>),
       <<>>,
       TextOf(<<LSC170(sItem, sCfopIn, a150, a150)>>) >>

\* lines of a file of sped_parser: two 0200 records of one item, two invoice
\* headers, an inbound item, an outbound item without a 0200 record, an
\* indented item without CFOP, and a blank line
PoolSped ==
    << LS0200(sItem, sNameA, sNcm), LS0200(sItem, sNameB, sNcm2),
       LSC100(sP1, sDoc1), LSC100(sP2, sDoc2),
       LSC170(sItem, sCfopIn, a150, a150), LSC170(sItem2, sCfopOut, a150, a000),
       <<<<" ">>>> \o Tail(LSC170(sItem, <<>>, a000, a150)),
       <<>> >>

\* the conteudo argument: at most MaxLinesSped lines of the pool
ContentInit ==
    \E k \in 0..MaxLinesSped : \E idx \in [1..k -> 1..Len(PoolSped)] :
        in_str = TextOf([i \in 1..k |-> PoolSped[idx[i]]])

\* sped_parser.processar_sped(in_str)
CallProcessarSped ==
    /\ called = ""
    /\ called' = "processar_sped"
    /\ result' = processar_sped(in_str)
    /\ UNCHANGED <<in_str, in_strs, in_file, in_frame, parserVars, appVars>>

\* sped_parser.processar_multiplos_speds on at most MaxBatch contents.  The
\* page does not use sped_parser: a call is a run of its own.
CallProcessarMultiplosSpeds ==
    /\ called = ""
    /\ uploaded_files = <<>> /\ files_data = <<>>
    /\ \E k \in 0..MaxBatch : \E idx \in [1..k -> 1..Len(ContentPool)] :
           LET arquivos_conteudo == [i \in 1..k |-> ContentPool[idx[i]]]
           IN  /\ in_strs' = arquivos_conteudo
               /\ result' = processar_multiplos_speds(arquivos_conteudo)
    /\ called' = "processar_multiplos_speds"
    /\ UNCHANGED <<in_str, in_file, in_frame, parserVars, appVars>>

\* a script run after the user set the uploader to at most MaxBatch files
Upload ==
    /\ called = ""
    /\ \E k \in 0..MaxBatch : \E idx \in [1..k -> 1..Len(FilePool)] :
           LET uploads == [i \in 1..k |-> FilePool[idx[i]]]
           IN  /\ uploaded_files' = uploads
               /\ files_data' = IF uploads # <<>>
                                THEN process_uploaded_files(files_data, uploads)
                                ELSE files_data
               /\ status_log' = IF uploads # <<>>
                                THEN ErrorsOf(status_placeholder(files_data, uploads))
                                ELSE <<>>
    /\ UNCHANGED <<parserVars, fnVars>>

\* the button "Remover" of entry idx: pop, then st.rerun() runs the script
\* again from the top with the uploader unchanged
Remove ==
    /\ called = ""
    /\ \E idx \in 1..Len(files_data) :
           /\ files_data' = IF uploaded_files # <<>>
                            THEN process_uploaded_files(Pop(files_data, idx), uploaded_files)
                            ELSE Pop(files_data, idx)
           /\ status_log' = IF uploaded_files # <<>>
                            THEN ErrorsOf(status_placeholder(Pop(files_data, idx),
                                                             uploaded_files))
                            ELSE <<>>
    /\ UNCHANGED <<uploaded_files, parserVars, fnVars>>

-----------------------------------------------------------------------------
(* app.py: the aggregation helpers.  A DataFrame is the list of its rows; a *)
(* grouped frame is the set of its rows, one per group (groupby sorts them  *)
(* by key; their order is not modelled).                                    *)

\* float > 0, False for nan
Gt0(x) == x.k \in {"num", "inf"} /\ x.n > 0

\* a credit test that keeps every row
HasCredit_EveryRow(row) == TRUE

\* (df["VL_PIS"] > 0) | (df["VL_COFINS"] > 0)
HasCredit(row) == Gt0(row.VL_PIS) \/ Gt0(row.VL_COFINS)

\* the four columns that to_float fills
Numeric(row) ==
    [VL_BC_PIS_NUM |-> app_to_float(row.VL_BC_PIS),
     VL_BC_COFINS_NUM |-> app_to_float(row.VL_BC_COFINS),
     VL_PIS |-> app_to_float(row.VL_PIS),
     VL_COFINS |-> app_to_float(row.VL_COFINS)]

\* the sum of a column over the rows of a group: NaN cells are skipped
RECURSIVE ColumnSum(_, _)
ColumnSum(rows, col) ==
    IF rows = <<>> THEN Zero
    ELSE IF Head(rows)[col].k = "nan" THEN ColumnSum(Tail(rows), col)
    ELSE Add(Head(rows)[col], ColumnSum(Tail(rows), col))

\* the group of a row.  resumo_tipo groups by COMPETENCIA and EMPRESA and
\* then inserts the one GRUPO of the call, resumo_cfop_mapeado groups by the
\* three columns.
GroupKey(r) ==
    [COMPETENCIA |-> r.COMPETENCIA, EMPRESA |-> r.EMPRESA, GRUPO |-> r.GRUPO]

\* groupby(...)[the four columns].sum().rename(...)
GroupSums(rows) ==
    { LET group == SelectSeq(rows, LAMBDA r : GroupKey(r) = k)
      IN  k @@ [BASE_PIS |-> ColumnSum(group, "VL_BC_PIS_NUM"),
                BASE_COFINS |-> ColumnSum(group, "VL_BC_COFINS_NUM"),
                PIS |-> ColumnSum(group, "VL_PIS"),
                COFINS |-> ColumnSum(group, "VL_COFINS")]
      : k \in {GroupKey(r) : r \in Range(rows)} }

\* app.resumo_tipo
resumo_tipo(df_outros, tipos, label) ==
    IF \A i \in 1..Len(df_outros) : "TIPO" \notin DOMAIN df_outros[i] THEN {}
    ELSE LET df == SelectSeq(df_outros,
                             LAMBDA r : "TIPO" \in DOMAIN r /\ r.TIPO \in Range(tipos))
             num == [i \in 1..Len(df) |->
                        [COMPETENCIA |-> df[i].COMPETENCIA, EMPRESA |-> df[i].EMPRESA,
                         GRUPO |-> label] @@ Numeric(df[i])]
             kept == SelectSeq(num, HasCredit)
         IN  GroupSums(kept)

s1102 == <<"1", "1", "0", "2">>
s2102 == <<"2", "1", "0", "2">>
s1403 == <<"1", "4", "0", "3">>
s2403 == <<"2", "4", "0", "3">>
s1202 == <<"1", "2", "0", "2">>
s2202 == <<"2", "2", "0", "2">>
s1411 == <<"1", "4", "1", "1">>
s2411 == <<"2", "4", "1", "1">>
s1909 == <<"1", "9", "0", "9">>
s2909 == <<"2", "9", "0", "9">>
s1949 == <<"1", "9", "4", "9">>
s2949 == <<"2", "9", "4", "9">>

\* app.CFOP_MAP
CFOP_MAP ==
    (s1102 :> "Compra para Comercializacao")
        @@ (s2102 :> "Compra para Comercializacao")
        @@ (s1403 :> "Compra para Comercializacao com ST")
        @@ (s2403 :> "Compra para Comercializacao com ST")
        @@ (s1202 :> "Devolucao de Venda") @@ (s2202 :> "Devolucao de Venda")
        @@ (s1411 :> "Devolucao de Venda com ST")
        @@ (s2411 :> "Devolucao de Venda com ST")
        @@ (s1909 :> "Entrada em Comodato") @@ (s2909 :> "Entrada em Comodato")
        @@ (s1949 :> "Outras Entradas") @@ (s2949 :> "Outras Entradas")

\* df["CFOP"].astype(str).map(CFOP_MAP).fillna("NF-e Outras Entradas")
Grupo(cfop) ==
    IF cfop \in DOMAIN CFOP_MAP THEN CFOP_MAP[cfop] ELSE "NF-e Outras Entradas"

\* app.resumo_cfop_mapeado
resumo_cfop_mapeado(df_c100) ==
    IF df_c100 = <<>> THEN {}
    ELSE LET num == [i \in 1..Len(df_c100) |->
                        [COMPETENCIA |-> df_c100[i].COMPETENCIA,
                         EMPRESA |-> df_c100[i].EMPRESA,
                         GRUPO |-> Grupo(df_c100[i].CFOP)] @@ Numeric(df_c100[i])]
             kept == SelectSeq(num, HasCredit)
         IN  GroupSums(kept)

sComp1 == <<"0", "9", "/", "2", "0", "2", "5">>
sComp2 == <<"1", "0", "/", "2", "0", "2", "5">>
a200 == <<"2", ",", "0", "0">>
a1000 == <<"1", ".", "0", "0", "0", ",", "0", "0">>
sCfopX == <<"1", "5", "5", "6">>

\* base, PIS and COFINS of a row: a credit, a negative correction, a
\* correction of one tax only, and zeros
Amounts ==
    { <<a1000, a150, a150>>, <<a150neg, a150neg, a150neg>>,
      <<a1000, a150neg, a200>>, <<a000, a000, a000>> }

\* the columns of a df_outros row that resumo_tipo reads
OutrosRow(tipo, comp, am) ==
    [COMPETENCIA |-> comp, EMPRESA |-> sNameA, TIPO |-> tipo,
     VL_BC_PIS |-> am[1], VL_PIS |-> am[2], VL_BC_COFINS |-> am[1], VL_COFINS |-> am[3]]

\* the columns of a df_c100 row that resumo_cfop_mapeado reads
C100Row(cfop, comp, am) ==
    [COMPETENCIA |-> comp, EMPRESA |-> sNameA, CFOP |-> cfop,
     VL_BC_PIS |-> am[1], VL_PIS |-> am[2], VL_BC_COFINS |-> am[1], VL_COFINS |-> am[3]]

OutrosRowPool ==
    {OutrosRow(tipo, comp, am) :
        tipo \in {"A100/A170", "F100/F120"}, comp \in {sComp1, sComp2}, am \in Amounts}

C100RowPool ==
    {C100Row(cfop, comp, am) :
        cfop \in {s1102, s2102, sCfopX}, comp \in {sComp1, sComp2}, am \in Amounts}

\* the DataFrame argument: at most MaxRows rows of df_outros or of df_c100
FrameInit ==
    \E k \in 0..MaxRows :
        \E f \in [1..k -> OutrosRowPool] \cup [1..k -> C100RowPool] : in_frame = f

\* the label the page passes with each TIPO
LabelOf(tipo) ==
    IF tipo = "A100/A170" THEN "Servicos tomados (A100)"
    ELSE "Outros documentos (F100)"

\* app.resumo_tipo(in_frame, [tipo], label), as the page calls it on df_outros
CallResumoTipo ==
    /\ called = ""
    /\ \A i \in 1..Len(in_frame) : "TIPO" \in DOMAIN in_frame[i]
    /\ \E tipo \in {"A100/A170", "F100/F120"} :
           /\ in_strs' = <<tipo>>
           /\ result' = resumo_tipo(in_frame, <<tipo>>, LabelOf(tipo))
    /\ called' = "resumo_tipo"
    /\ UNCHANGED <<in_str, in_file, in_frame, parserVars, appVars>>

\* app.resumo_cfop_mapeado(in_frame), as the page calls it on df_c100
CallResumoCfopMapeado ==
    /\ called = ""
    /\ \A i \in 1..Len(in_frame) : "TIPO" \notin DOMAIN in_frame[i]
    /\ result' = resumo_cfop_mapeado(in_frame)
    /\ called' = "resumo_cfop_mapeado"
    /\ UNCHANGED <<in_str, in_strs, in_file, in_frame, parserVars, appVars>>

\* the upload page is not in use
AppIdle == uploaded_files = <<>> /\ files_data = <<>> /\ status_log = <<>>

Init == ParserInitFrom(PoolAll, MaxLines) /\ FnIdle /\ AppIdle

Spec == Init /\ [][NextParser]_vars

\* the parser on files of utility bills
InitUtility == ParserInitFrom(PoolUtility, MaxLinesUtility) /\ FnIdle /\ AppIdle
SpecUtility == InitUtility /\ [][NextParser]_vars

\* the parser on files with and without an opening record
InitMeta == ParserInitFrom(PoolMeta, MaxLinesMeta) /\ FnIdle /\ AppIdle
\* the for loop is sequential code: an iteration that can run does run
SpecMeta ==
    InitMeta /\ [][NextParser]_vars
        /\ ([]<>(pc # "loop") \/ []<><<NextParser>>_vars)

\* the parser on files of Other-Document records
InitSchema == ParserInitFrom(PoolSchema, MaxLinesSchema) /\ FnIdle /\ AppIdle
SpecSchema == InitSchema /\ [][NextParser]_vars

\* the parser on a file with registry records that share a code
InitMaps == ParserInitFrom(PoolMaps, MaxLinesMaps) /\ FnIdle /\ AppIdle
SpecMaps == InitMaps /\ [][NextParser]_vars

\* the parser on a file with several headers of a family
InitFamilies == ParserInitFrom(PoolFamilies, MaxLinesFamilies) /\ FnIdle /\ AppIdle
SpecFamilies == InitFamilies /\ [][NextParser]_vars

\* processar_sped on one file
InitSped ==
    /\ ContentInit
    /\ in_strs = <<>> /\ in_file = NoFile /\ in_frame = <<>>
    /\ called = "" /\ result = <<>>
    /\ ParserIdle /\ AppIdle
NextSped == CallProcessarSped
SpecSped == InitSped /\ [][NextSped]_vars

\* the two aggregation helpers
InitAgg ==
    /\ FrameInit
    /\ in_str = <<>> /\ in_strs = <<>> /\ in_file = NoFile
    /\ called = "" /\ result = <<>>
    /\ ParserIdle /\ AppIdle
NextAgg == CallResumoTipo \/ CallResumoCfopMapeado
SpecAgg == InitAgg /\ [][NextAgg]_vars

\* the three numeric normalizers
InitNorm ==
    /\ StrInit(NormAlphabet, NormSamples, MaxStrLen)
    /\ in_strs = <<>> /\ in_file = NoFile /\ in_frame = <<>>
    /\ called = "" /\ result = <<>>
    /\ ParserIdle /\ AppIdle
NextNorm == Call_to_float \/ CallAppToFloat \/ CallSpedToFloat
SpecNorm == InitNorm /\ [][NextNorm]_vars

\* the two operation classifiers
InitClass ==
    /\ StrInit(CfopAlphabet, CfopSamples, MaxCfopLen)
    /\ in_strs = <<>> /\ in_file = NoFile /\ in_frame = <<>>
    /\ called = "" /\ result = <<>>
    /\ ParserIdle /\ AppIdle
NextClass == CallClassificarCfop \/ CallClassificarTipoOperacao
SpecClass == InitClass /\ [][NextClass]_vars

\* the upload page, and the batch function of sped_parser
InitApp == ParserIdle /\ FnIdle /\ AppIdle
NextApp == Upload \/ Remove \/ CallProcessarMultiplosSpeds
SpecApp == InitApp /\ [][NextApp]_vars

\* the loader
InitLoad ==
    /\ FileInit
    /\ in_str = <<>> /\ in_strs = <<>> /\ in_frame = <<>>
    /\ called = "" /\ result = <<>>
    /\ ParserIdle /\ AppIdle
NextLoad == CallLoad
SpecLoad == InitLoad /\ [][NextLoad]_vars

-----------------------------------------------------------------------------
(* Properties of parse_efd_piscofins *)

\* p is a record line with the tag: the loop skips lines of fewer than 3 fields
IsRec(p, tag) == Len(p) >= 3 /\ p[2] = tag

\* the last record with the tag before line k, 0 when there is none
LastRec(tag, k) ==
    LET S == {j \in 1..(k - 1) : IsRec(lines[j], tag)}
    IN  IF S = {} THEN 0 ELSE CHOOSE j \in S : \A i \in S : i <= j

\* the loop is about to read line pos
Reading == pc = "loop" /\ pos <= Len(lines)

\* C1: a Credit Line is appended only by a C170 line whose open C100 header
\* (the last C100 before it) has the inbound direction code "0"; under an
\* outbound, empty or unrecognised code nothing is appended.
C1_CreditLineOnlyInbound ==
    [][records_c100' # records_c100 =>
          /\ Reading
          /\ IsRec(lines[pos], TC170)
          /\ LastRec(TC100, pos) # 0
          /\ _get(lines[LastRec(TC100, pos)], 2) = <<"0">>
          /\ Len(records_c100') = Len(records_c100) + 1
          /\ SubSeq(records_c100', 1, Len(records_c100)) = records_c100]_vars

\* a file with an outbound header gave one Credit Line, from its inbound one
C1_Witness ==
    /\ pc = "done"
    /\ Len(records_c100) = 1
    /\ records_c100[1].IND_OPER = <<"0">>
    /\ \E i \in 1..Len(lines) : IsRec(lines[i], TC100) /\ _get(lines[i], 2) = sOut

\* the field is a non-zero amount
NonZero(v) == ~IsZero(_to_float(v))

\* one of the four base and value fields of a row is non-zero
NonZeroRow(r) ==
    NonZero(r.VL_BC_PIS) \/ NonZero(r.VL_PIS)
        \/ NonZero(r.VL_BC_COFINS) \/ NonZero(r.VL_COFINS)

IsC500Row(r) == r.TIPO = "C500/C501/C505"

\* C2 as stated: every row of the Credit Line, Other-Document and Credit
\* Declaration (M105) collections has a non-zero base or value field.
C2_EveryRowNonZero ==
    /\ \A i \in 1..Len(records_c100) : NonZeroRow(records_c100[i])
    /\ \A i \in 1..Len(records_out) : NonZeroRow(records_out[i])
    /\ \A i \in 1..Len(records_cred_pis) :
           NonZero(records_cred_pis[i].VL_BC) \/ NonZero(records_cred_pis[i].VL_CRED)

\* C2, amended: every Credit Line and every Other-Document row of an A170,
\* D101, D105 or F120 has a non-zero base or value field; a C500 row is
\* appended only when an accumulated base or value is non-zero, its fields
\* being that sum rounded to two decimals; every M105 line appends a Credit
\* Declaration row and every M200 line an apportionment row, whatever they
\* hold.
C2_NonZeroExceptUtilityAndM ==
    /\ [](/\ \A i \in 1..Len(records_c100) : NonZeroRow(records_c100[i])
          /\ \A i \in 1..Len(records_out) :
                 IsC500Row(records_out[i]) \/ NonZeroRow(records_out[i]))
    /\ [][/\ (Len(records_out') > Len(records_out)
                 /\ IsC500Row(records_out'[Len(records_out')]))
              => ~(/\ IsZero(c500_pis_bc) /\ IsZero(c500_pis_val)
                   /\ IsZero(c500_cof_bc) /\ IsZero(c500_cof_val))
          /\ (Reading /\ IsRec(lines[pos], TM105))
              => Len(records_cred_pis') = Len(records_cred_pis) + 1
          /\ (Reading /\ IsRec(lines[pos], TM200))
              => Len(records_ap_pis') = Len(records_ap_pis) + 1]_vars

\* a Credit Declaration row of zeros and a utility row that reads 0,00
C2_Witness ==
    /\ pc = "done"
    /\ \E i \in 1..Len(records_cred_pis) :
           ~NonZero(records_cred_pis[i].VL_BC) /\ ~NonZero(records_cred_pis[i].VL_CRED)
    /\ \E i \in 1..Len(records_out) :
           IsC500Row(records_out[i]) /\ ~NonZeroRow(records_out[i])

HeaderTags == {TC100, TA100, TC500, TD100, TF100}

\* the next C500 record after line i, or the line after the last one
NextC500(i) ==
    LET S == {j \in (i + 1)..Len(lines) : IsRec(lines[j], TC500)}
    IN  IF S = {} THEN Len(lines) + 1 ELSE CHOOSE j \in S : \A k \in S : j <= k

\* line i is a utility header whose only child is the non-zero C501 on line
\* i + 1, followed by a header of some family
OnlyTaxAChild(i) ==
    /\ i + 2 <= Len(lines)
    /\ IsRec(lines[i], TC500)
    /\ IsRec(lines[i + 1], TC501)
    /\ NonZero(_get(lines[i + 1], 5)) \/ NonZero(_get(lines[i + 1], 7))
    /\ Len(lines[i + 2]) >= 3 /\ lines[i + 2][2] \in HeaderTags
    /\ \A j \in (i + 2)..(NextC500(i) - 1) :
           ~IsRec(lines[j], TC501) /\ ~IsRec(lines[j], TC505)
    /\ \A j \in 1..Len(lines) :
           (j # i /\ IsRec(lines[j], TC500)) => _get(lines[j], 7) # _get(lines[i], 7)

\* the utility rows emitted for the document of the header on line i
RowsOf(i) ==
    {k \in 1..Len(records_out) :
        IsC500Row(records_out[k]) /\ records_out[k].DOC = _get(lines[i], 7)}

\* C3: a C500 followed only by a non-zero C501 and then a header of any
\* family gets exactly one Other-Document row, never two at any moment and
\* never none in the result, and its COFINS base, rate and value are zero.
C3_UtilityOneRow ==
    \A i \in 1..Len(lines) :
        OnlyTaxAChild(i) =>
            /\ Cardinality(RowsOf(i)) <= 1
            /\ pc = "done" => Cardinality(RowsOf(i)) = 1
            /\ \A k \in RowsOf(i) :
                   /\ ~NonZero(records_out[k].VL_BC_COFINS)
                   /\ ~NonZero(records_out[k].ALIQ_COFINS)
                   /\ ~NonZero(records_out[k].VL_COFINS)
                   /\ records_out[k].VL_BC_PIS = _fmt_brl(_to_float(_get(lines[i + 1], 5)))

\* such a utility header was closed by the end of input after a header of
\* another family
C3_Witness ==
    /\ pc = "done"
    /\ \E i \in 1..Len(lines) :
           /\ OnlyTaxAChild(i)
           /\ lines[i + 2][2] # TC500
           /\ Cardinality(RowsOf(i)) = 1

ChildParent ==
    { <<TC170, TC100>>, <<TA170, TA100>>, <<TC501, TC500>>, <<TC505, TC500>>,
      <<TD101, TD100>>, <<TD105, TD100>>, <<TF120, TF100>> }

\* line k is a child record and no header of its family precedes it
OrphanAt(k) ==
    /\ Len(lines[k]) >= 2
    /\ \E cp \in ChildParent :
           /\ lines[k][2] = cp[1]
           /\ \A j \in 1..(k - 1) : ~(Len(lines[j]) >= 2 /\ lines[j][2] = cp[2])

\* C4: a child record read before any header of its family appends no row
\* and changes no open header and no accumulator of any family.
C4_OrphanChildIgnored ==
    [][(Reading /\ OrphanAt(pos)) =>
          UNCHANGED <<records_c100, records_out, records_ap_pis, records_cred_pis,
                      current_c100, current_a100, current_c500, current_d100,
                      current_f100, c500_pis_bc, c500_pis_aliq, c500_pis_val,
                      c500_cof_bc, c500_cof_aliq, c500_cof_val>>]_vars

\* an orphan D101 with amounts was read while a utility bill was open
C4_Witness ==
    /\ pos > 1 /\ pos <= Len(lines) + 1
    /\ OrphanAt(pos - 1)
    /\ lines[pos - 1][2] = TD101
    /\ NonZero(_get(lines[pos - 1], 4))
    /\ current_c500 # None
    /\ ~IsZero(c500_pis_bc)

\* the name of the last 0150 record of the file for the code, "" without one
RegistryName(code) ==
    LET S == {j \in 1..Len(lines) :
                 IsRec(lines[j], T0150) /\ Strip(lines[j][3]) = code /\ code # <<>>}
        last == CHOOSE j \in S : \A i \in S : i <= j
    IN  IF S = {} THEN <<>> ELSE Strip(_get(lines[last], 3))

\* C5: the participant name of every row is the registry's name for the
\* row's participant code, and "" when the registry does not have the code.
C5_ParticipantName ==
    /\ \A i \in 1..Len(records_c100) :
           records_c100[i].NOME_PART = RegistryName(records_c100[i].COD_PART)
    /\ \A i \in 1..Len(records_out) :
           records_out[i].NOME_PART = RegistryName(records_out[i].COD_PART)

\* a row with a resolved name
C5_Witness ==
    /\ pc = "done"
    /\ \E i \in 1..Len(records_c100) :
           records_c100[i].COD_PART = sP1 /\ records_c100[i].NOME_PART # <<>>

\* the opening records as _extract_0000_metadata recognises them
Opening == {i \in 1..Len(lines) : Len(lines[i]) >= 9 /\ lines[i][2] = T0000}

\* the rows of the four collections
AllRows ==
    Range(records_c100) \cup Range(records_out)
        \cup Range(records_ap_pis) \cup Range(records_cred_pis)

\* the metadata and the rows of a file with or without an opening record
MetadataOfOpening ==
    /\ Opening # {} =>
           LET first == CHOOSE i \in Opening : \A j \in Opening : i <= j
               dt == Strip(lines[first][7])
           IN  /\ (Len(dt) = 8 /\ \A k \in 1..8 : dt[k] \in Digit) =>
                      competencia = <<dt[5], dt[6], "/", dt[1], dt[2], dt[3], dt[4]>>
               /\ empresa = Strip(lines[first][8])
    /\ Opening = {} => competencia = <<>> /\ empresa = <<>>
    /\ \A r \in AllRows : r.COMPETENCIA = competencia /\ r.EMPRESA = empresa

\* C11: the competence is MM/YYYY taken from the 8-digit start date (read as
\* YYYYMMDD) of the first opening record and the entity is its stripped name
\* field; without an opening record both are empty, the parser still runs to
\* its end, and every row carries the (empty) period and entity.
C11_HeaderMetadata == []MetadataOfOpening /\ <>(pc = "done")

\* a file whose only 0000 line is cut to 8 fields was parsed to the end and
\* gave rows without period and entity
C11_Witness ==
    /\ pc = "done"
    /\ Opening = {}
    /\ \E i \in 1..Len(lines) : lines[i][2] = T0000
    /\ records_out # <<>>
    /\ records_out[1].COMPETENCIA = <<>> /\ records_out[1].EMPRESA = <<>>

\* the rows of a collection have the same field names
SameFields(rows) ==
    \A i, j \in 1..Len(rows) : DOMAIN rows[i] = DOMAIN rows[j]

\* C12: in each of the four output collections all rows have the same set
\* of field names, whichever record family produced them; in particular the
\* Other-Document rows of A170, C500, D101, D105 and F120.
C12_SameFields ==
    /\ SameFields(records_c100)
    /\ SameFields(records_out)
    /\ SameFields(records_ap_pis)
    /\ SameFields(records_cred_pis)

\* line i is a freight header followed by its D101 and its D105, both with
\* a non-zero value
FreightPair(i) ==
    /\ i + 2 <= Len(lines)
    /\ IsRec(lines[i], TD100)
    /\ IsRec(lines[i + 1], TD101) /\ NonZero(_get(lines[i + 1], 6))
    /\ IsRec(lines[i + 2], TD105) /\ NonZero(_get(lines[i + 2], 6))

\* the Other-Document rows of the freight family
FreightRows ==
    {k \in 1..Len(records_out) :
        records_out[k].TIPO \notin {"A100/A170", "C500/C501/C505", "F100/F120"}}

\* C18: a D100 header followed by a D101 and a D105 with non-zero amounts
\* gets one merged Other-Document row that carries both taxes, never one
\* row per child.
C18_FreightMergedRow ==
    \A i \in 1..Len(lines) :
        (FreightPair(i) /\ \A j \in 1..Len(lines) : j # i => ~IsRec(lines[j], TD100)) =>
            /\ Cardinality(FreightRows) <= 1
            /\ pc = "done" =>
                   /\ Cardinality(FreightRows) = 1
                   /\ \A k \in FreightRows :
                          /\ NonZero(records_out[k].VL_PIS)
                          /\ NonZero(records_out[k].VL_COFINS)

\* the open parent of the family of the header tag
OpenParent(tag) ==
    CASE tag = TC100 -> current_c100
      [] tag = TA100 -> current_a100
      [] tag = TC500 -> current_c500
      [] tag = TD100 -> current_d100
      [] tag = TF100 -> current_f100

\* what the loop body can change besides pos
LoopState ==
    <<records_c100, records_out, records_ap_pis, records_cred_pis,
      current_c100, current_a100, current_c500, current_d100, current_f100,
      c500_pis_bc, c500_pis_aliq, c500_pis_val,
      c500_cof_bc, c500_cof_aliq, c500_cof_val>>

\* C19 as stated: only a line of fewer than two fields is discarded; a
\* header line of exactly two fields is dispatched on its tag and opens or
\* replaces the open parent of its family.
C19_TwoFieldLineDispatched ==
    [][\A tag \in HeaderTags :
           (Reading /\ Len(lines[pos]) = 2 /\ lines[pos][2] = tag) =>
               OpenParent(tag)' = lines[pos]]_vars

\* C19, amended: a line of fewer than three fields is discarded, so a line
\* of exactly two fields (an empty leading field and a tag) changes no open
\* parent, no accumulator and no collection; a header line of at least
\* three fields opens or replaces the open parent of its family.
C19_ShortLineDiscarded ==
    /\ [][(Reading /\ Len(lines[pos]) < 3) =>
              pos' = pos + 1 /\ UNCHANGED LoopState]_vars
    /\ [][\A tag \in HeaderTags :
               (Reading /\ Len(lines[pos]) >= 3 /\ lines[pos][2] = tag) =>
                   OpenParent(tag)' = lines[pos]]_vars

\* the two-field line "|C100" was read under an open invoice header, which
\* is still the open one
C19_Witness ==
    /\ pos = 3 /\ Len(lines) >= 2
    /\ IsRec(lines[1], TC100)
    /\ Len(lines[2]) = 2 /\ lines[2][2] = TC100
    /\ current_c100 = lines[1]

\* the header tag of the family of an Other-Document row
FamilyOf(tipo) ==
    CASE tipo = "A100/A170" -> TA100
      [] tipo = "C500/C501/C505" -> TC500
      [] tipo \in {"D100/D101", "D100/D105"} -> TD100
      [] tipo = "F100/F120" -> TF100

\* participant, number, date and total of the header line h with the tag
HeaderDoc(tag, h) ==
    CASE tag \in {TC100, TD100} ->
             [part |-> _get(h, 4), num |-> _get(h, 8),
              date |-> _get(h, 10), total |-> _get(h, 12)]
      [] tag = TA100 ->
             [part |-> _get(h, 4), num |-> _get(h, 8),
              date |-> _get(h, 9), total |-> _get(h, 11)]
      [] tag = TC500 ->
             [part |-> _get(h, 2), num |-> _get(h, 7),
              date |-> _get(h, 8), total |-> _get(h, 10)]
      [] tag = TF100 ->
             [part |-> _get(h, 3), num |-> _get(h, 5),
              date |-> _get(h, 6), total |-> _get(h, 7)]

\* participant, number, date and total of a Credit Line
CreditLineDoc(r) ==
    [part |-> r.COD_PART, num |-> r.NUM_DOC, date |-> r.DT_DOC, total |-> r.VL_DOC]

\* participant, number, date and total of an Other-Document row
OtherDoc(r) ==
    [part |-> r.COD_PART, num |-> r.DOC, date |-> r.DT_DOC, total |-> r.VL_DOC]

\* the step appended one row to the collection
Appended(old, new) ==
    Len(new) = Len(old) + 1 /\ SubSeq(new, 1, Len(old)) = old

\* C20: a header replaces the open parent of its family, and every row
\* emitted for a child record carries the participant, number, date and
\* total of the last header of its family before the child (for a utility
\* row, which is emitted when its bill is closed, before the closing line),
\* never those of an earlier header.
C20_LatestHeader ==
    /\ [][\A tag \in HeaderTags :
               (Reading /\ IsRec(lines[pos], tag)) => OpenParent(tag)' = lines[pos]]_vars
    /\ [][records_c100' # records_c100 =>
               /\ Appended(records_c100, records_c100')
               /\ LastRec(TC100, pos) # 0
               /\ CreditLineDoc(records_c100'[Len(records_c100')])
                      = HeaderDoc(TC100, lines[LastRec(TC100, pos)])]_vars
    /\ [][records_out' # records_out =>
               /\ Appended(records_out, records_out')
               /\ \E tag \in HeaderTags :
                      /\ tag = FamilyOf(records_out'[Len(records_out')].TIPO)
                      /\ LastRec(tag, pos) # 0
                      /\ OtherDoc(records_out'[Len(records_out')])
                             = HeaderDoc(tag, lines[LastRec(tag, pos)])]_vars

\* a service header was replaced by another one before the A170 line, and
\* the row of the A170 has the participant and number of the second
C20_Witness ==
    /\ pc = "done" /\ Len(lines) = 3
    /\ IsRec(lines[1], TA100) /\ IsRec(lines[2], TA100) /\ IsRec(lines[3], TA170)
    /\ _get(lines[1], 8) # _get(lines[2], 8)
    /\ Len(records_out) = 1
    /\ records_out[1].DOC = _get(lines[2], 8)
    /\ records_out[1].COD_PART = _get(lines[2], 4)

\* the sum, in the order of the lines, of field idx of the records with the
\* tag on the lines lo..hi
RECURSIVE ChildSum(_, _, _, _)
ChildSum(tag, idx, lo, hi) ==
    IF lo > hi THEN Zero
    ELSE Bind(ChildSum(tag, idx, lo, hi - 1),
              LAMBDA acc : IF IsRec(lines[hi], tag)
                           THEN Add(acc, _to_float(_get(lines[hi], idx)))
                           ELSE acc)

\* the step closes the utility bill opened on line h: it reads the next
\* C500 or it is the end of the input
ClosesBill(h) ==
    /\ pc = "loop"
    /\ pos > Len(lines) \/ IsRec(lines[pos], TC500)
    /\ h = LastRec(TC500, pos)
    /\ h # 0

\* the four sums of the children of the bill on line h, up to line pos
BillSums(h) ==
    [pis_bc |-> ChildSum(TC501, 5, h + 1, pos - 1),
     pis_val |-> ChildSum(TC501, 7, h + 1, pos - 1),
     cof_bc |-> ChildSum(TC505, 5, h + 1, pos - 1),
     cof_val |-> ChildSum(TC505, 7, h + 1, pos - 1)]

\* the row has the document of the header line and the four sums
IsBillRow(r, h, sums) ==
    /\ r.TIPO = "C500/C501/C505"
    /\ r.DOC = _get(lines[h], 7) /\ r.COD_PART = _get(lines[h], 2)
    /\ r.VL_BC_PIS = _fmt_brl(sums.pis_bc) /\ r.VL_PIS = _fmt_brl(sums.pis_val)
    /\ r.VL_BC_COFINS = _fmt_brl(sums.cof_bc) /\ r.VL_COFINS = _fmt_brl(sums.cof_val)

\* C21: a utility row is appended only by the step that closes a bill (the
\* next C500 or the end of the input), one row for the bill; its PIS and
\* COFINS base and value are the sums of the C501 and C505 lines between
\* the header and the closing step; a bill whose four sums are zero gets no
\* row.
C21_UtilityRowAtClose ==
    /\ [][(records_out' # records_out
              /\ records_out'[Len(records_out')].TIPO = "C500/C501/C505") =>
               \E h \in 1..Len(lines) : ClosesBill(h)]_vars
    /\ [][\A h \in 1..Len(lines) :
               ClosesBill(h) =>
                   Bind(BillSums(h),
                        LAMBDA sums :
                            IF /\ IsZero(sums.pis_bc) /\ IsZero(sums.pis_val)
                               /\ IsZero(sums.cof_bc) /\ IsZero(sums.cof_val)
                            THEN records_out' = records_out
                            ELSE /\ Appended(records_out, records_out')
                                 /\ IsBillRow(records_out'[Len(records_out')],
                                              h, sums))]_vars

\* a bill with a C501 and a C505 was closed by the next C500, which gave the
\* row of the first bill with both taxes
C21_Witness ==
    /\ pc = "loop" /\ pos = 5 /\ Len(lines) = 4
    /\ IsRec(lines[1], TC500) /\ IsRec(lines[2], TC501)
    /\ IsRec(lines[3], TC505) /\ IsRec(lines[4], TC500)
    /\ _get(lines[1], 7) # _get(lines[4], 7)
    /\ Len(records_out) = 1
    /\ records_out[1].DOC = _get(lines[1], 7)
    /\ records_out[1].VL_PIS = a150 /\ records_out[1].VL_COFINS = a150
    /\ current_c500 = lines[4]

\* the NCM of the last 0200 record of the file for the item code, "" without
\* one
RegistryNcm(code) ==
    LET S == {j \in 1..Len(lines) :
                 IsRec(lines[j], T0200) /\ Strip(lines[j][3]) = code /\ code # <<>>}
        last == CHOOSE j \in S : \A i \in S : i <= j
    IN  IF S = {} THEN <<>> ELSE Strip(_get(lines[last], 7))

\* C22: the reference maps are those of the whole file from the first line
\* read on and never change; with two 0150 or two 0200 records of one code,
\* every row that has the code has the name or NCM of the last of them, the
\* rows of lines before that record included.
C22_MapsLastWins ==
    /\ [][UNCHANGED <<map_part_nome, map_coditem_ncm>>]_vars
    /\ [](\A i \in 1..Len(records_c100) :
              /\ records_c100[i].NOME_PART = RegistryName(records_c100[i].COD_PART)
              /\ records_c100[i].NCM = RegistryNcm(records_c100[i].COD_ITEM))
    /\ [](\A i \in 1..Len(records_out) :
              records_out[i].NOME_PART = RegistryName(records_out[i].COD_PART))

\* the Credit Line of a C170 that is followed by two 0200 records of its
\* item has the NCM of the second
C22_Witness ==
    /\ pc = "done" /\ Len(lines) = 4
    /\ IsRec(lines[1], TC100) /\ IsRec(lines[2], TC170)
    /\ IsRec(lines[3], T0200) /\ IsRec(lines[4], T0200)
    /\ _get(lines[3], 7) # _get(lines[4], 7)
    /\ Len(records_c100) = 1
    /\ records_c100[1].NCM = _get(lines[4], 7)

\* the M200 lines the loop has read
M200Read == {j \in 1..Len(lines) : j < pos /\ IsRec(lines[j], TM200)}

\* C23 as stated: a file gets at most one Period Apportionment row, whatever
\* the number of its M200 lines, and the row is never filtered out.
C23_AtMostOneApportionment ==
    /\ Len(records_ap_pis) <= 1
    /\ M200Read # {} => Len(records_ap_pis) = 1

\* C23, amended: a file gets one Period Apportionment row for each of its
\* M200 lines, in the order of the lines, and no row is filtered out, a row
\* of zeros included.
C23_OneRowPerM200 ==
    /\ Len(records_ap_pis) = Cardinality(M200Read)
    /\ \A j \in M200Read :
           records_ap_pis[Cardinality({i \in M200Read : i <= j})].VL_TOT_CONT_NC_PER
               = _to_float(_get(lines[j], 2))

\* a file with two M200 lines, the second of zeros, gave two rows
C23_Witness ==
    /\ pc = "done"
    /\ Cardinality(M200Read) = 2
    /\ Len(records_ap_pis) = 2
    /\ ~IsZero(records_ap_pis[1].VL_TOT_CONT_NC_PER)
    /\ IsZero(records_ap_pis[2].VL_TOT_CONT_NC_PER)

\* the step leaves the collection as it is or appends one row to it
AppendOnly(old, new) == new = old \/ Appended(old, new)

\* no row of any collection is changed or removed
RowsKept ==
    /\ AppendOnly(records_c100, records_c100')
    /\ AppendOnly(records_out, records_out')
    /\ AppendOnly(records_ap_pis, records_ap_pis')
    /\ AppendOnly(records_cred_pis, records_cred_pis')

\* the child tag of an Other-Document row that is written when its child
\* line is read
ChildOf(tipo) ==
    CASE tipo = "A100/A170" -> TA170
      [] tipo = "D100/D101" -> TD101
      [] tipo = "D100/D105" -> TD105
      [] tipo = "F100/F120" -> TF120

\* records_out already has a row of a document that starts after line h: a
\* family whose only header before line pos is on a line after h has a row
RowOfLaterDocument(h) ==
    \E g \in (h + 1)..(pos - 1) : \E tag \in HeaderTags \ {TC100} :
        /\ IsRec(lines[g], tag)
        /\ LastRec(tag, g) = 0 /\ LastRec(tag, pos) = g
        /\ \E k \in 1..Len(records_out) : FamilyOf(records_out[k].TIPO) = tag

\* C24 as stated: the collections are append-only and their rows are in
\* the order of the input lines of their documents: a row of an earlier
\* document is never appended after a row of a later document.
C24_DocumentOrder ==
    /\ [][RowsKept]_vars
    /\ [][records_out' # records_out =>
               \A tag \in HeaderTags \ {TC100} :
                   tag = FamilyOf(records_out'[Len(records_out')].TIPO) =>
                       ~RowOfLaterDocument(LastRec(tag, pos))]_vars

\* C24, amended: the collections are append-only, and a row is appended by
\* the step that reads the line that emits it (the child line; for a
\* utility row the next C500 or the end of the input), so that the rows of
\* a collection are in the order of their emitting lines, and a utility
\* row or a row of interleaved families may follow rows of later
\* documents.
C24_AppendOnlyEmissionOrder ==
    /\ [][RowsKept]_vars
    /\ [][records_out' # records_out =>
               IF records_out'[Len(records_out')].TIPO = "C500/C501/C505"
               THEN \E h \in 1..Len(lines) : ClosesBill(h)
               ELSE /\ Reading
                    /\ IsRec(lines[pos],
                             ChildOf(records_out'[Len(records_out')].TIPO))]_vars
    /\ [][records_c100' # records_c100 => Reading /\ IsRec(lines[pos], TC170)]_vars
    /\ [][records_cred_pis' # records_cred_pis =>
               Reading /\ IsRec(lines[pos], TM105)]_vars
    /\ [][records_ap_pis' # records_ap_pis =>
               Reading /\ IsRec(lines[pos], TM200)]_vars

\* the row of the utility bill of line 1 was appended at the end of the
\* input, after the row of the service document of line 3
C24_Witness ==
    /\ pc = "done" /\ Len(lines) = 4
    /\ IsRec(lines[1], TC500) /\ IsRec(lines[2], TC501)
    /\ IsRec(lines[3], TA100) /\ IsRec(lines[4], TA170)
    /\ Len(records_out) = 2
    /\ records_out[1].TIPO = "A100/A170"
    /\ records_out[2].TIPO = "C500/C501/C505"

\* the six utility accumulators are 0.0
AccumulatorsZero ==
    /\ c500_pis_bc = Zero /\ c500_pis_aliq = Zero /\ c500_pis_val = Zero
    /\ c500_cof_bc = Zero /\ c500_cof_aliq = Zero /\ c500_cof_val = Zero

\* C27: whenever current_c500 is None the six utility accumulators are
\* zero, and a C500 line leaves them zero for the bill it opens: no amount
\* accumulated under one C500 goes into the row of another header.
C27_IdleAccumulatorsZero ==
    /\ [](current_c500 = None => AccumulatorsZero)
    /\ [][(Reading /\ IsRec(lines[pos], TC500)) => AccumulatorsZero']_vars

\* a bill with amounts and a rate was closed at the end of the input: its
\* row is written and no header is open
C27_Witness ==
    /\ pc = "done" /\ current_c500 = None
    /\ \E k \in 1..Len(lines) : IsRec(lines[k], TC501) /\ LastRec(TC500, k) # 0
    /\ records_out # <<>>
    /\ records_out[Len(records_out)].TIPO = "C500/C501/C505"
    /\ records_out[Len(records_out)].ALIQ_PIS # _fmt_brl(Zero)

\* C28: a header record changes only the open parent of its own family and
\* leaves the other four as they are, so while the loop runs every open
\* parent is the last header of its family read so far, whatever records of
\* other families came in between, and a child attaches to that header.
C28_OwnFamilyOnly ==
    /\ [][\A tag \in HeaderTags :
               (Reading /\ IsRec(lines[pos], tag)) =>
                   \A other \in HeaderTags \ {tag} :
                       OpenParent(other)' = OpenParent(other)]_vars
    /\ [](pc = "loop" =>
              \A tag \in HeaderTags :
                  OpenParent(tag) = IF LastRec(tag, pos) = 0 THEN None
                                    ELSE lines[LastRec(tag, pos)])

\* a freight header came between a service header and its A170: the row of
\* the A170 has the participant and number of the service header
C28_Witness ==
    /\ Len(lines) = 3 /\ pos = 4
    /\ IsRec(lines[1], TA100) /\ IsRec(lines[2], TD100) /\ IsRec(lines[3], TA170)
    /\ current_a100 = lines[1] /\ current_d100 = lines[2]
    /\ Len(records_out) = 1
    /\ records_out[1].TIPO = "A100/A170"
    /\ OtherDoc(records_out[1]) = HeaderDoc(TA100, lines[1])

\* the first opening record of the line sequence
FirstOpening == CHOOSE i \in Opening : \A j \in Opening : i <= j

\* the period that the start date dt of an opening record gives
PeriodOf(dt) ==
    IF Len(dt) = 8 THEN <<dt[5], dt[6], "/", dt[1], dt[2], dt[3], dt[4]>> ELSE <<>>

\* C29: all rows of one call, in the four collections, carry the same
\* COMPETENCIA and EMPRESA, those of the first 0000 record of at least nine
\* fields in the line sequence; a later 0000 record never changes them.
C29_FirstOpeningOnly ==
    /\ [][competencia' = competencia /\ empresa' = empresa]_vars
    /\ [](Opening # {} =>
              /\ competencia = PeriodOf(Strip(lines[FirstOpening][7]))
              /\ empresa = Strip(lines[FirstOpening][8]))
    /\ [](\A r \in AllRows :
              \A q \in AllRows :
                  r.COMPETENCIA = q.COMPETENCIA /\ r.EMPRESA = q.EMPRESA
                      /\ r.COMPETENCIA = competencia /\ r.EMPRESA = empresa)

\* two opening records with different dates and names, then a record that
\* gives a row: the row has the period and the name of the first
C29_Witness ==
    /\ pc = "done" /\ Len(lines) = 3
    /\ Opening = {1, 2}
    /\ PeriodOf(Strip(lines[1][7])) # PeriodOf(Strip(lines[2][7]))
    /\ Strip(lines[1][8]) # Strip(lines[2][8])
    /\ \E r \in AllRows :
           /\ r.COMPETENCIA = PeriodOf(Strip(lines[1][7])) /\ r.COMPETENCIA # <<>>
           /\ r.EMPRESA = Strip(lines[1][8])

\* C30: the parser's _to_float and the page's to_float agree on whether a
\* field is zero, for every input string, so a field that the parser's
\* filter takes for non-zero is non-zero for the aggregator as well.
C30_NormalizersAgreeOnZero ==
    /\ called = "parser_pis_cofins._to_float" =>
           (IsZero(result) <=> IsZero(app_to_float(in_str)))
    /\ called = "app.to_float" =>
           (IsZero(result) <=> IsZero(_to_float(in_str)))

-----------------------------------------------------------------------------
(* Properties of a batch of files *)

\* the combined frames of the page for a session that holds only file f
Alone(f) == CombineFiles(process_uploaded_files(<<>>, <<f>>), Todas, Todas)

\* the frames of every file processed alone, concatenated in upload order
RECURSIVE ConcatAlone(_)
ConcatAlone(uploads) ==
    IF uploads = <<>>
    THEN [df_c100 |-> <<>>, df_outros |-> <<>>, df_ap |-> <<>>, df_cred |-> <<>>]
    ELSE Bind(Alone(Head(uploads)),
              LAMBDA a :
                  Bind(ConcatAlone(Tail(uploads)),
                       LAMBDA rest :
                           [df_c100 |-> a.df_c100 \o rest.df_c100,
                            df_outros |-> a.df_outros \o rest.df_outros,
                            df_ap |-> a.df_ap \o rest.df_ap,
                            df_cred |-> a.df_cred \o rest.df_cred]))

\* the rows of every content processed alone, concatenated in order
RECURSIVE ConcatSpedAlone(_)
ConcatSpedAlone(contents) ==
    IF contents = <<>> THEN <<>>
    ELSE processar_multiplos_speds(<<Head(contents)>>)
             \o ConcatSpedAlone(Tail(contents))

\* the step uploads a batch into an empty session
BatchFromEmpty ==
    called = "" /\ files_data = <<>> /\ uploaded_files' # <<>>
        /\ uploaded_files' # uploaded_files

\* the batch gave, file by file, what each file gives alone
BatchIsConcatenation ==
    /\ CombineFiles(files_data', Todas, Todas) = ConcatAlone(uploaded_files')
    /\ \A i \in 1..Len(uploaded_files') :
           \A e \in Range(process_uploaded_files(<<>>, <<uploaded_files'[i]>>)) :
               e \in Range(files_data')

\* no file is uploaded twice
DistinctFiles(uploads) ==
    \A i, j \in 1..Len(uploads) : i # j => uploads[i] # uploads[j]

DistinctNames(uploads) ==
    \A i, j \in 1..Len(uploads) : i # j => uploads[i].name # uploads[j].name

\* C6 as stated: a batch of different files gives for each file the records
\* that the file gives alone, and the batch result is the per-file results
\* concatenated in order.
C6_BatchIsConcatenation ==
    /\ [][(BatchFromEmpty /\ DistinctFiles(uploaded_files')) => BatchIsConcatenation]_vars
    /\ [](called = "processar_multiplos_speds" => result = ConcatSpedAlone(in_strs))

\* C6, amended: the same for a batch of files whose names differ from one
\* another (the page skips an upload whose name it has already processed);
\* processar_multiplos_speds, which has no names, concatenates every batch.
C6_BatchOfDistinctNames ==
    /\ [][(BatchFromEmpty /\ DistinctNames(uploaded_files')) => BatchIsConcatenation]_vars
    /\ [](called = "processar_multiplos_speds" => result = ConcatSpedAlone(in_strs))

\* two files with different names were processed in one batch, both with rows
C6_Witness ==
    /\ Len(uploaded_files) = 2 /\ Len(files_data) = 2
    /\ uploaded_files[1].name # uploaded_files[2].name
    /\ files_data[1].name = uploaded_files[1].name
    /\ files_data[2].name = uploaded_files[2].name
    /\ files_data[1].df_cred # <<>>
    /\ files_data[2].df_outros # <<>>

\* the step runs the page on a new batch of uploads
NewBatch ==
    called = "" /\ uploaded_files' # <<>> /\ uploaded_files' # uploaded_files

\* parsing the upload raises
Raises(uploaded_file) == parse_file(uploaded_file).raised # ""

\* the names of the entries of fd
NamesOf(fd) == {fd[i].name : i \in 1..Len(fd)}

\* the result of parse_file for every upload of the batch whose name is not
\* the name of an entry of fd; the page does not parse the others
Skipped == [raised |-> "skipped", value |-> <<>>]

RECURSIVE ParseNew(_, _)
ParseNew(fd, uploads) ==
    IF uploads = <<>> THEN <<>>
    ELSE <<IF Head(uploads).name \in NamesOf(fd) THEN Skipped
           ELSE parse_file(Head(uploads))>> \o ParseNew(fd, Tail(uploads))

\* the entries that were there are unchanged and every new entry is the
\* entry of a file that parsed; a file whose parsing raised was reported;
\* every file that parsed, those after a file that raised included, has its
\* entry
ErrorIsolated ==
    Bind(ParseNew(files_data, uploaded_files'),
         LAMBDA parsed :
             /\ Len(files_data') >= Len(files_data)
             /\ SubSeq(files_data', 1, Len(files_data)) = files_data
             /\ \A e \in (Len(files_data) + 1)..Len(files_data') :
                    \E j \in 1..Len(parsed) :
                        /\ parsed[j].raised = ""
                        /\ files_data'[e] =
                               FileEntry(uploaded_files'[j].name, parsed[j].value)
             /\ \A i \in 1..Len(parsed) :
                    /\ parsed[i].raised \notin {"", "skipped"} =>
                           Status("error", uploaded_files'[i].name)
                               \in Range(status_log')
                    /\ parsed[i].raised = "" =>
                           uploaded_files'[i].name \in NamesOf(files_data'))

\* C17: when parsing one file of a batch raises, that file is reported and
\* not added to files_data, the entries that files_data already has are
\* unchanged, and every later file of the batch is still processed.
C17_ErrorIsolation == [][NewBatch => ErrorIsolated]_vars

\* after a file was loaded, a batch of a file that is not an archive and a
\* good file: the first was reported, the second added after the old entry
C17_Witness ==
    /\ Len(uploaded_files) = 2
    /\ Raises(uploaded_files[1]) /\ ~Raises(uploaded_files[2])
    /\ Len(files_data) = 2
    /\ files_data[1].name \notin {uploaded_files[1].name, uploaded_files[2].name}
    /\ files_data[2].name = uploaded_files[2].name
    /\ status_log = <<Status("error", uploaded_files[1].name)>>

\* no two entries of fd have the same file name
UniqueNames(fd) ==
    \A i, j \in 1..Len(fd) : i # j => fd[i].name # fd[j].name

\* new is base, every entry as it was, followed by entries whose names are
\* not names of base
KeptThenNew(base, new) ==
    /\ Len(new) >= Len(base)
    /\ SubSeq(new, 1, Len(base)) = base
    /\ \A e \in (Len(base) + 1)..Len(new) : new[e].name \notin NamesOf(base)

\* C25: after any sequence of uploads and removals no two entries of
\* files_data have the same file name; a script run appends an entry only
\* for a name that has no entry and leaves the entry of a name that has one
\* as it is (after a removal: the entries that remain).
C25_UniqueFileNames ==
    /\ [](UniqueNames(files_data))
    /\ [][\/ KeptThenNew(files_data, files_data')
          \/ /\ uploaded_files' = uploaded_files
             /\ \E idx \in 1..Len(files_data) :
                    KeptThenNew(Pop(files_data, idx), files_data')]_vars

\* the second file named a.txt was uploaded when the first had its entry:
\* the entry still has the credit rows of the first
C25_Witness ==
    /\ uploaded_files = <<FilePool[2]>>
    /\ Len(files_data) = 1
    /\ files_data[1].name = FilePool[2].name
    /\ files_data[1].df_cred # <<>> /\ files_data[1].df_ap = <<>>

\* the step is a press of "Remover" and the script run that follows it: the
\* uploader is as it was and files_data is not (a script run on the same
\* uploads without a removal leaves files_data as it is)
RemovePressed ==
    called = "" /\ uploaded_files' = uploaded_files /\ files_data' # files_data

\* C26: after the user removes a loaded file, that file is absent from
\* files_data when the script run that follows completes, also when the
\* upload widget still lists the file.
C26_RemovedFileAbsent ==
    [][RemovePressed =>
           \E idx \in 1..Len(files_data) :
               files_data[idx].name \notin NamesOf(files_data')]_vars

-----------------------------------------------------------------------------
(* Properties of processar_sped.  ls is the list of the stripped lines of   *)
(* the file.                                                                *)

SpedLines(conteudo) ==
    Bind(Split(conteudo, "\n"), LAMBDA parts : [i \in 1..Len(parts) |-> Strip(parts[i])])

\* the C170 lines that have a C100 line somewhere before them
ItemsWithHeader(ls) ==
    {i \in 1..Len(ls) :
        StartsWith(ls[i], sC170) /\ \E j \in 1..(i - 1) : StartsWith(ls[j], sC100)}

\* the k-th element of the set of numbers S
Nth(S, k) == CHOOSE i \in S : Cardinality({j \in S : j < i}) = k - 1

\* the last C100 line before line i
HeaderOf(ls, i) ==
    CHOOSE j \in 1..(i - 1) :
        /\ StartsWith(ls[j], sC100)
        /\ \A m \in (j + 1)..(i - 1) : ~StartsWith(ls[m], sC100)

\* row k of the result was made from the k-th C170 line that has a header
RowFromItem(ls, k) ==
    LET i == Nth(ItemsWithHeader(ls), k)
    IN  /\ result[k].COD_ITEM = extrair_campo(ls[i], 3)
        /\ result[k].CFOP = extrair_campo(ls[i], 11)
        /\ result[k].VL_PIS = sped_to_float(extrair_campo(ls[i], 30))
        /\ result[k].VL_COFINS = sped_to_float(extrair_campo(ls[i], 36))
        /\ result[k].NUM_DOC = extrair_campo(ls[HeaderOf(ls, i)], 8)
        /\ result[k].COD_PART = extrair_campo(ls[HeaderOf(ls, i)], 4)

\* C14: processar_sped gives exactly one row for each C170 line that has a
\* C100 line before it, in the order of the lines and whatever the direction
\* of its CFOP, and no row for a C170 line that comes before every C100.
C14_OneRowPerItem ==
    called = "processar_sped" =>
        Bind(SpedLines(in_str),
             LAMBDA ls :
                 /\ Len(result) = Cardinality(ItemsWithHeader(ls))
                 /\ \A k \in 1..Len(result) : RowFromItem(ls, k))

\* an item before every header gave no row; the two after it, an outbound
\* one first, gave a row each
C14_Witness ==
    /\ called = "processar_sped"
    /\ Len(result) = 1
    /\ result[1].TIPO_OPERACAO = "SAIDA"
    /\ Bind(SpedLines(in_str),
            LAMBDA ls : /\ StartsWith(ls[1], sC170)
                        /\ StartsWith(ls[2], sC100)
                        /\ StartsWith(ls[3], sC170))

\* the first character of a code, "" for the empty code
FirstChar(s) == IF s = <<>> THEN "" ELSE s[1]

\* C15: every row's TIPO_OPERACAO is the class of the row's own CFOP, which
\* is field 11 of its C170 line: ENTRADA exactly for the rows whose CFOP
\* starts with 1, 2 or 3 and SAIDA exactly for those whose CFOP starts with
\* 5, 6 or 7, so that the two subsets are disjoint.
C15_TipoOperacaoOfOwnCfop ==
    called = "processar_sped" =>
        Bind(SpedLines(in_str),
             LAMBDA ls :
                 \A k \in 1..Len(result) :
                     /\ k <= Cardinality(ItemsWithHeader(ls))
                     /\ result[k].CFOP =
                            extrair_campo(ls[Nth(ItemsWithHeader(ls), k)], 11)
                     /\ result[k].TIPO_OPERACAO = "ENTRADA"
                            <=> FirstChar(result[k].CFOP) \in {"1", "2", "3"}
                     /\ result[k].TIPO_OPERACAO = "SAIDA"
                            <=> FirstChar(result[k].CFOP) \in {"5", "6", "7"}
                     /\ result[k].TIPO_OPERACAO \in {"ENTRADA", "SAIDA", "OUTROS"})

\* an invoice with an inbound and an outbound item
C15_Witness ==
    /\ called = "processar_sped"
    /\ Len(result) = 2
    /\ result[1].CFOP = sCfopIn /\ result[1].TIPO_OPERACAO = "ENTRADA"
    /\ result[2].CFOP = sCfopOut /\ result[2].TIPO_OPERACAO = "SAIDA"

\* the 0200 lines that register the item code
RegistryOf(ls, cod_item) ==
    {j \in 1..Len(ls) :
        /\ StartsWith(ls[j], s0200)
        /\ cod_item # <<>>
        /\ extrair_campo(ls[j], 2) = cod_item}

\* C16: every row's DESCR_ITEM and NCM are those of the 0200 record of the
\* row's COD_ITEM (of the last one when several have the code), wherever
\* the 0200 line is in the file, and are empty when no 0200 record has it.
C16_ItemRegistry ==
    called = "processar_sped" =>
        Bind(SpedLines(in_str),
             LAMBDA ls :
                 \A k \in 1..Len(result) :
                     LET R == RegistryOf(ls, result[k].COD_ITEM)
                         last == CHOOSE j \in R : \A m \in R : m <= j
                     IN  IF R = {}
                         THEN result[k].DESCR_ITEM = <<>> /\ result[k].NCM = <<>>
                         ELSE /\ result[k].DESCR_ITEM = extrair_campo(ls[last], 3)
                              /\ result[k].NCM = extrair_campo(ls[last], 8))

\* the 0200 record of the item is the last line of the file, after its C170
C16_Witness ==
    /\ called = "processar_sped"
    /\ Len(result) = 1
    /\ result[1].COD_ITEM = sItem
    /\ result[1].DESCR_ITEM = sNameB /\ result[1].NCM = sNcm2
    /\ Bind(SpedLines(in_str),
            LAMBDA ls : StartsWith(ls[2], sC170) /\ StartsWith(ls[3], s0200))

-----------------------------------------------------------------------------
(* Properties of the aggregation helpers *)

AggCalled == called \in {"resumo_tipo", "resumo_cfop_mapeado"}

\* the rows of the argument that the call selects
SelectedRows ==
    {i \in 1..Len(in_frame) :
        called = "resumo_tipo" => in_frame[i].TIPO \in Range(in_strs)}

\* the group of row i
KeyOf(i) ==
    [COMPETENCIA |-> in_frame[i].COMPETENCIA, EMPRESA |-> in_frame[i].EMPRESA,
     GRUPO |-> IF called = "resumo_tipo" THEN LabelOf(in_strs[1])
               ELSE Grupo(in_frame[i].CFOP)]

\* the sum of a column, as numbers, over the rows S of the argument
RECURSIVE Total(_, _)
Total(S, col) ==
    IF S = {} THEN Zero
    ELSE LET i == CHOOSE j \in S : TRUE
         IN  Add(app_to_float(in_frame[i][col]), Total(S \ {i}, col))

\* the totals of the rows S that belong to the group k
TotalsOf(S, k) ==
    LET G == {i \in S : KeyOf(i) = k}
    IN  [BASE_PIS |-> Total(G, "VL_BC_PIS"), BASE_COFINS |-> Total(G, "VL_BC_COFINS"),
         PIS |-> Total(G, "VL_PIS"), COFINS |-> Total(G, "VL_COFINS")]

\* the totals the result shows for the group k, zeros when it has no such row
Shown(k) ==
    IF \E g \in result : GroupKey(g) = k
    THEN LET g == CHOOSE h \in result : GroupKey(h) = k
         IN  [BASE_PIS |-> g.BASE_PIS, BASE_COFINS |-> g.BASE_COFINS,
              PIS |-> g.PIS, COFINS |-> g.COFINS]
    ELSE [BASE_PIS |-> Zero, BASE_COFINS |-> Zero, PIS |-> Zero, COFINS |-> Zero]

\* row i has a PIS or a COFINS value greater than zero
Positive(i) ==
    LET pis == app_to_float(in_frame[i].VL_PIS)
        cof == app_to_float(in_frame[i].VL_COFINS)
    IN  (pis.k = "num" /\ pis.n > 0) \/ (cof.k = "num" /\ cof.n > 0)

\* C13 as stated: the totals of each group are the sums of all the selected
\* rows of the group, rows with negative tax values included.
C13_SumsEveryRow ==
    AggCalled =>
        \A i \in SelectedRows : Shown(KeyOf(i)) = TotalsOf(SelectedRows, KeyOf(i))

\* C13, amended: the helpers first drop every row whose PIS and COFINS are
\* both not greater than zero; the result has one row per group of the rows
\* that are left, and its totals are the sums of those rows as they are, a
\* negative value of a kept row included.
C13_SumsRowsWithCredit ==
    AggCalled =>
        LET Kept == {i \in SelectedRows : Positive(i)}
        IN  /\ \A g \in result : \E i \in Kept : GroupKey(g) = KeyOf(i)
            /\ \A g, h \in result : GroupKey(g) = GroupKey(h) => g = h
            /\ \A i \in Kept :
                   /\ \E g \in result : GroupKey(g) = KeyOf(i)
                   /\ Shown(KeyOf(i)) = TotalsOf(Kept, KeyOf(i))

\* a group of two corrections: the one with both taxes negative was dropped,
\* the one with a negative PIS and a positive COFINS was summed as it is
C13_Witness ==
    /\ called = "resumo_tipo"
    /\ Len(in_frame) = 2
    /\ SelectedRows = {1, 2}
    /\ KeyOf(1) = KeyOf(2)
    /\ in_frame[1].VL_PIS = a150neg /\ in_frame[1].VL_COFINS = a150neg
    /\ in_frame[2].VL_PIS = a150neg /\ in_frame[2].VL_COFINS = a200
    /\ \E g \in result : g.PIS = Num(-15, 1) /\ g.COFINS = Num(2, 0)

-----------------------------------------------------------------------------
(* Properties of the loader, the normalizers and the classifiers *)

HasTxtMember(f) ==
    \E i \in 1..Len(f.members) : EndsWith(Lower(f.members[i].name), sTxt)

\* C7: load_efd_from_upload raises the format error (ValueError) exactly when
\* the name of the artifact ends with neither .txt nor .zip, or when the
\* artifact is a zip archive without a .txt member; otherwise it returns
\* lines and raises nothing.  (Stated for artifacts whose bytes are an
\* archive whenever their name says so.)
C7_FormatErrorExactly ==
    (called = "load_efd_from_upload"
        /\ (EndsWith(Lower(in_file.name), sZip) => in_file.is_zip)) =>
    LET zip == EndsWith(Lower(in_file.name), sZip)
        txt == EndsWith(Lower(in_file.name), sTxt)
    IN  IF (~zip /\ ~txt) \/ (zip /\ ~HasTxtMember(in_file))
        THEN result.raised = "ValueError"
        ELSE result.raised = ""

NormalizerCalls ==
    {"parser_pis_cofins._to_float", "app.to_float", "sped_parser.to_float"}

\* a number is written with at least one digit
HasDigit(s) == \E i \in 1..Len(s) : s[i] \in Digit

\* C8: each numeric normalizer is total and never raises: "1.234,56" gives
\* 1234.56, "0,00" gives 0, the empty or blank string gives 0, and every
\* string that is not a number (such as "abc") gives 0.
C8_NormalizerTotal ==
    called \in NormalizerCalls =>
        /\ result.k # "ValueError"
        /\ in_str = <<"1", ".", "2", "3", "4", ",", "5", "6">>
               => result = Num(123456, 2)
        /\ in_str = <<"0", ",", "0", "0">> => result = Zero
        /\ Strip(in_str) = <<>> => result = Zero
        /\ ~HasDigit(in_str) => result = Zero

\* digits, one period, digits, no comma: the canonical form of a float
IsCanonical(s) ==
    LET body == IF s # <<>> /\ Head(s) = "-" THEN Tail(s) ELSE s
    IN  /\ Count(body, ".") = 1
        /\ \A i \in 1..Len(body) : body[i] \in Digit \cup {"."}
        /\ body[1] # "." /\ body[Len(body)] # "."

\* C9: the normalizers of the parser and of the page give a canonical string
\* (a period as decimal point, no comma, such as "1234.56") the value it
\* denotes.
C9_IdempotentOnCanonical ==
    (called \in {"parser_pis_cofins._to_float", "app.to_float"}
        /\ IsCanonical(in_str)) => result = FloatOf(in_str)

\* the first character of the stripped code, "" when there is none
FirstOfStripped(s) == IF Strip(s) = <<>> THEN "" ELSE Strip(s)[1]

\* C10: each operation classifier returns one of exactly three directions:
\* inbound for a stripped code starting with 1, 2 or 3, outbound for 5, 6
\* or 7, and for every other input, the empty string included, one single
\* unclassified value.
C10_ThreeDirections ==
    /\ called = "classificar_cfop" =>
           result = (IF FirstOfStripped(in_str) \in {"1", "2", "3"} THEN "ENTRADA"
                     ELSE IF FirstOfStripped(in_str) \in {"5", "6", "7"} THEN "SAIDA"
                     ELSE classificar_cfop(<<>>))
    /\ called = "classificar_tipo_operacao" =>
           result = (IF FirstOfStripped(in_str) \in {"1", "2", "3"} THEN "ENTRADA"
                     ELSE IF FirstOfStripped(in_str) \in {"5", "6", "7"} THEN "SAIDA"
                     ELSE classificar_tipo_operacao(<<>>))

====
